---- MODULE Spec2Model ----
(***************************************************************************)
(* A model of chat-clm: the BPE tokenizer (src/src/clm/tokenizer.rs), the  *)
(* compression-dictionary ensemble (clm_model.rs, trainer.rs), the         *)
(* baseline models (uniform_model.rs, ngram_model.rs) and the evaluator    *)
(* (evaluate.rs).                                                          *)
(*                                                                         *)
(* Text is a sequence of one-character strings; a fragment (a String key   *)
(* of the vocabulary) is a sequence of characters; a token code (Vec<u8>)  *)
(* is a sequence of byte values.  A HashMap is a function; its iteration   *)
(* order, which Rust randomises per map, is a nondeterministic choice.     *)
(***************************************************************************)
EXTENDS Integers, Sequences, FiniteSets, TLC

(***************************************************************************)
(* Bounds of the model.                                                    *)
(***************************************************************************)
MaxTrainLen == 4      \* longest raw training text
MaxEncodeLen == 3     \* longest raw text handed to encode_fast_opt
MaxVocabSize == 4     \* largest target vocabulary size
MaxTokenBytes == 1    \* largest token_byte_size
MaxTokenCode == 2     \* the tokens of the models are <<1>> .. <<MaxTokenCode>>
MaxStreamLen == 3     \* longest training stream of a baseline model
MaxPrefixLen == 2     \* longest prefix handed to compute_likelihoods
MaxVocabLen == 2      \* longest all_tokens list
MaxDicts == 2         \* most dictionaries of a loaded ensemble
MaxTestLen == 35      \* longest test text handed to evaluate
UsizeWidth == 16      \* bits of a usize in the model
MaxTokens == 25       \* longest token stream handed to ClmModel::train
MaxEnsemble == 6      \* largest ensemble_size
MaxSampleSize == 2    \* largest training_chunk_size
MaxCalls == 2         \* most calls of compress that return
MaxDigits == 3        \* most decimal places of a written float
MaxMerges == 2        \* a tokenizer is trained again while it has fewer merges

VARIABLES
    \* Tokenizer (tokenizer.rs:11-20)
    tokens, merges, vocab_size, token_byte_size,
    \* Tokenizer::train: its argument, its locals and its position
    train_text, vocab, chunks,
    \* Tokenizer::encode_fast_opt and decode: argument, locals, results
    text, normalized, i, output, decoded,
    \* position of the tokenizer's caller
    pc,
    \* what an earlier run of train was given and what it left
    first_run,
    \* a model (a ClmModel, UniformModel, BigramModel or UnigramModel), the
    \* arguments of its compute_likelihoods and what the call returned
    model, given_text, given_tokens, token_likelihoods,
    \* the call of Model::train that built the model: the implementing type
    \* and the token stream it was given
    train_call,
    \* position of the model's caller
    lpc,
    \* evaluate (evaluate.rs:54-93): the encoded test stream (its local
    \* `tokens`), the scored position, the ground truth, the recorded
    \* probabilities, whether a warning was printed, the returned statistics,
    \* whether the build checks integer overflow, and the position in the code
    eval_tokens, pos, ground_truth, likelihoods, warned, model_stats,
    overflow_checks, epc,
    \* ClmModel::train (clm_model.rs:40-89): its arguments, the shards (its
    \* local `chunks`), the slots of the parallel collect and the order in
    \* which the trainings ended
    train_tokens, train_options, shards, chunk_results, finished,
    \* the last call of train_model (trainer.rs:7-54): the shard it was given,
    \* what it computed, and whether it reached the native trainer
    trainer_call,
    \* the native objects: every handle ever created, with the number of
    \* times it was freed; whether a freed handle was handed to the library
    native, use_after_free,
    \* ClmModel::compress (clm_model.rs:154-182): the dictionary and the text
    \* it is given, its context, what the library returned, its position,
    \* and the number of calls that returned
    cdict_arg, raw_new_text, cctx, compressed_size_val, cpc, calls,
    \* position of the ensemble's owner
    mpc,
    \* the command line (cli.rs:38-196): whether ./models/ exists and the
    \* files in it, the subcommand and its model name, the file load_model
    \* chose, what clm::load returned, how the process ended, its position
    dir_exists, model_files, command, model_name, chosen_model, loaded_run,
    exit_status, clipc

tokVars == <<tokens, merges, vocab_size, token_byte_size, train_text, vocab,
             chunks, text, normalized, i, output, decoded, pc, first_run>>

likVars == <<model, train_call, given_text, given_tokens, token_likelihoods, lpc>>

evalVars == <<eval_tokens, pos, ground_truth, likelihoods, warned, model_stats,
              overflow_checks, epc>>

ensVars == <<train_tokens, train_options, shards, chunk_results, finished,
             trainer_call,
             native, use_after_free, cdict_arg, raw_new_text, cctx,
             compressed_size_val, cpc, calls, mpc>>

cliVars == <<dir_exists, model_files, command, model_name, chosen_model,
             loaded_run, exit_status, clipc>>

vars == <<tokVars, likVars, evalVars, ensVars, cliVars>>

\* the variables the tokenizer's operations leave alone
notTokVars == <<likVars, evalVars, ensVars, cliVars>>

\* the variables the models' operations leave alone
notLikVars == <<tokVars, evalVars, ensVars, cliVars>>

EmptyMap == [k \in {} |-> 0]

\* no earlier run is recorded
NoRun == [mode |-> "off", text |-> <<>>, vocab_size |-> 0,
          tokens |-> EmptyMap, merges |-> <<>>]

(***************************************************************************)
(* Generic helpers.                                                        *)
(***************************************************************************)
SeqsUpTo(S, n) == UNION {[1..k -> S] : k \in 0..n}

Range(s) == {s[k] : k \in 1..Len(s)}

RECURSIVE Flatten(_)
Flatten(ss) == IF ss = <<>> THEN <<>> ELSE Head(ss) \o Flatten(Tail(ss))

RECURSIVE SumOver(_, _)
SumOver(f, S) ==
    IF S = {} THEN 0
    ELSE LET x == CHOOSE y \in S : TRUE IN f[x] + SumOver(f, S \ {x})

IsPrefixAt(f, s, p) ==
    \* fragment f occurs in s starting at (1-based) position p
    /\ p + Len(f) - 1 <= Len(s)
    /\ \A k \in 1..Len(f) : s[p + k - 1] = f[k]

(***************************************************************************)
(* Characters.  RawChars are the characters of input texts: a lower-case   *)
(* letter, the space, an upper-case letter (folded by normalize) and a     *)
(* digit (dropped by normalize).                                           *)
(***************************************************************************)
RawChars == {"a", " ", "A", "1"}

\* the ASCII code of a character
CharCode(c) ==
    CASE c = "a" -> 97 [] c = " " -> 32 [] c = "A" -> 65 [] c = "1" -> 49
      [] c = "." -> 46 [] c = "," -> 44 [] c = "!" -> 33 [] OTHER -> 63

to_lowercase(c) == IF c = "A" THEN "a" ELSE c

\* unidecode maps ASCII to itself; every character of RawChars is ASCII
unidecode(c) == c

is_ascii_lowercase(c) == CharCode("a") <= CharCode(c) /\ CharCode(c) <= 122

KeptChar(c) == is_ascii_lowercase(c) \/ c = " " \/ c = "." \/ c = "," \/ c = "!"

\* Tokenizer::normalize (tokenizer.rs:65-73)
RECURSIVE normalize(_)
normalize(t) ==
    IF t = <<>> THEN <<>>
    ELSE LET c == to_lowercase(unidecode(to_lowercase(Head(t))))
         IN (IF KeptChar(c) THEN <<c>> ELSE <<>>) \o normalize(Tail(t))

(***************************************************************************)
(* Token codes.  DefaultHasher (SipHash with fixed keys) is a fixed        *)
(* function of the content; it is modelled by the polynomial string hash   *)
(* over the character codes, kept to HashWidth bits.  The code is the     *)
(* token_byte_size low bytes of the hash, least significant first.         *)
(***************************************************************************)
HashWidth == 24
ByteRange == 256

RECURSIVE Pow(_, _)
Pow(b, e) == IF e = 0 THEN 1 ELSE b * Pow(b, e - 1)

RECURSIVE HashFrom(_, _)
HashFrom(h, content) ==
    IF content = <<>> THEN h
    ELSE HashFrom((h * 31 + CharCode(Head(content))) % Pow(2, HashWidth),
                  Tail(content))

hash(content) == HashFrom(0, content)

\* Tokenizer::compute_token_code (tokenizer.rs:163-176)
compute_token_code(content, tbs) ==
    [k \in 1..tbs |-> (hash(content) \div Pow(ByteRange, k - 1)) % ByteRange]

(***************************************************************************)
(* Tokenizer::train (tokenizer.rs:76-152).                                 *)
(***************************************************************************)
\* the character-level vocabulary (tokenizer.rs:80-86)
CharVocab(norm, tbs) ==
    [f \in {<<c>> : c \in Range(norm)} |-> compute_token_code(f, tbs)]

\* slice::chunks (tokenizer.rs:90-96; clm_model.rs:45; trainer.rs:13)
RECURSIVE Chunked(_, _)
Chunked(s, size) ==
    IF s = <<>> THEN <<>>
    ELSE IF Len(s) <= size THEN <<s>>
    ELSE <<SubSeq(s, 1, size)>> \o Chunked(SubSeq(s, size + 1, Len(s)), size)

\* the fixed chunk length of tokenizer.rs:89, scaled to the texts of the model
chunk_size == 3

InitialChunks(norm) == Chunked([k \in 1..Len(norm) |-> <<norm[k]>>], chunk_size)

ends_with_space(f) == f /= <<>> /\ f[Len(f)] = " "

\* every position that has a right neighbour
EveryPosition(chunk) == 1..(Len(chunk) - 1)

\* the positions whose pair is counted (tokenizer.rs:103-110)
CountedPositions(chunk) ==
    {k \in 1..(Len(chunk) - 1) : ~ends_with_space(chunk[k])}

AllPairs(chs) ==
    UNION {{<<chs[c][k], chs[c][k + 1]>> : k \in CountedPositions(chs[c])}
           : c \in 1..Len(chs)}

\* pair_counts (tokenizer.rs:101-111)
PairCount(chs, pair) ==
    LET n[c \in 0..Len(chs)] ==
            IF c = 0 THEN 0
            ELSE n[c - 1] + Cardinality({k \in CountedPositions(chs[c]) :
                                           <<chs[c][k], chs[c][k + 1]>> = pair})
    IN n[Len(chs)]

\* max_by_key over the HashMap's iteration order (tokenizer.rs:114-115): the
\* last maximal pair of an order that Rust randomises, so any maximal pair
MaxPairs(chs) ==
    {p \in AllPairs(chs) :
        \A q \in AllPairs(chs) : PairCount(chs, q) <= PairCount(chs, p)}

\* a rewrite that fuses nothing
ApplyMergeNowhere(chunk, k, first, second) == chunk

\* the rewrite of one chunk (tokenizer.rs:130-138); k is the code's i, 1-based
RECURSIVE ApplyMergeFrom(_, _, _, _)
ApplyMergeFrom(chunk, k, first, second) ==
    IF k > Len(chunk) - 1 THEN chunk
    ELSE IF chunk[k] = first /\ chunk[k + 1] = second
         THEN ApplyMergeFrom(SubSeq(chunk, 1, k - 1) \o <<first \o second>>
                                \o SubSeq(chunk, k + 2, Len(chunk)),
                             k, first, second)
         ELSE ApplyMergeFrom(chunk, k + 1, first, second)

\* the rewrite of the chunks laid end to end as one chunk
ApplyMergeAcross(chs, first, second) ==
    <<ApplyMergeFrom(Flatten(chs), 1, first, second)>>

ApplyMerge(chs, first, second) ==
    [c \in 1..Len(chs) |-> ApplyMergeFrom(chs[c], 1, first, second)]

\* HashMap::insert
MapInsert(m, key, val) ==
    [x \in DOMAIN m \cup {key} |-> IF x = key THEN val ELSE m[x]]

(***************************************************************************)
(* Tokenizer::encode_fast_opt (tokenizer.rs:178-241) and decode            *)
(* (tokenizer.rs:248-263).  A trie node is the path of characters leading  *)
(* to it; node p has the child c iff Append(p, c) is a node.               *)
(***************************************************************************)
Prefixes(f) == {SubSeq(f, 1, k) : k \in 0..Len(f)}

\* TrieNode::insert of every vocabulary entry (tokenizer.rs:37-43, 183-186)
TrieNodes(toks) == {<<>>} \cup UNION {Prefixes(f) : f \in DOMAIN toks}

NoMatch == [found |-> FALSE, code |-> <<>>, match_len |-> 0]

\* the inner loop (tokenizer.rs:213-223): j runs from start, 0-based
RECURSIVE Descend(_, _, _, _, _, _)
Descend(toks, norm, start, j, node, last_match) ==
    IF j >= Len(norm) THEN last_match
    ELSE LET child == Append(node, norm[j + 1])
         IN IF child \in TrieNodes(toks)
            THEN Descend(toks, norm, start, j + 1, child,
                         IF child \in DOMAIN toks
                         THEN [found |-> TRUE, code |-> toks[child],
                               match_len |-> j - start + 1]
                         ELSE last_match)
            ELSE last_match

\* a descent that stops at the first node carrying a code
RECURSIVE DescendFirst(_, _, _, _, _)
DescendFirst(toks, norm, start, j, node) ==
    IF j >= Len(norm) THEN NoMatch
    ELSE LET child == Append(node, norm[j + 1])
         IN IF child \notin TrieNodes(toks) THEN NoMatch
            ELSE IF child \in DOMAIN toks
                 THEN [found |-> TRUE, code |-> toks[child],
                       match_len |-> j - start + 1]
                 ELSE DescendFirst(toks, norm, start, j + 1, child)

FirstMatch(toks, norm, start) == DescendFirst(toks, norm, start, start, <<>>)

\* a descent that keeps the code of the last edge it could follow, whether or
\* not a fragment ends there
RECURSIVE DescendDeepest(_, _, _, _, _, _)
DescendDeepest(toks, norm, start, j, node, last_match) ==
    IF j >= Len(norm) THEN last_match
    ELSE LET child == Append(node, norm[j + 1])
         IN IF child \in TrieNodes(toks)
            THEN DescendDeepest(toks, norm, start, j + 1, child,
                     [found |-> TRUE,
                      code |-> IF child \in DOMAIN toks THEN toks[child]
                               ELSE last_match.code,
                      match_len |-> j - start + 1])
            ELSE last_match

DeepestNode(toks, norm, start) ==
    DescendDeepest(toks, norm, start, start, <<>>, NoMatch)

\* a match that claims one character more than the descent covered
OvershootingMatch(toks, norm, start) ==
    LET m == Descend(toks, norm, start, start, <<>>, NoMatch)
    IN [m EXCEPT !.match_len = m.match_len + 1]

LongestMatch(toks, norm, start) == Descend(toks, norm, start, start, <<>>, NoMatch)

\* the (0-based) indices j at which the inner loop reads normalized[j]
\* (tokenizer.rs:213-214)
RECURSIVE ReadsFrom(_, _, _, _)
ReadsFrom(toks, norm, j, node) ==
    IF j >= Len(norm) THEN {}
    ELSE {j} \cup (IF Append(node, norm[j + 1]) \in TrieNodes(toks)
                   THEN ReadsFrom(toks, norm, j + 1, Append(node, norm[j + 1]))
                   ELSE {})

\* build_reverse_map (tokenizer.rs:154-160): the later insert of a code wins,
\* in the iteration order of the vocabulary, so any fragment with that code
ReverseMaps(toks) ==
    LET codes == {toks[f] : f \in DOMAIN toks}
    IN {r \in [codes -> DOMAIN toks] : \A c \in codes : toks[r[c]] = c}

UNK == <<"[", "U", "N", "K", "]">>

RECURSIVE decode(_, _)
decode(reverse_tokens, codes) ==
    IF codes = <<>> THEN <<>>
    ELSE (IF Head(codes) \in DOMAIN reverse_tokens
          THEN reverse_tokens[Head(codes)] ELSE UNK)
         \o decode(reverse_tokens, Tail(codes))

(***************************************************************************)
(* The tokenizer's operations.                                             *)
(***************************************************************************)
\* no model is under test
NoModel == [kind |-> "none"]

\* no model was trained
NoTrain == [kind |-> "none", tokens |-> <<>>]

LikIdle ==
    /\ model = NoModel
    /\ train_call = NoTrain
    /\ given_text = <<>>
    /\ given_tokens = <<>>
    /\ token_likelihoods = [status |-> "none", likelihoods |-> EmptyMap]
    /\ lpc = "idle"

NoStats == [status |-> "none"]

\* evaluate is not running
EvalIdle ==
    /\ eval_tokens = <<>>
    /\ pos = 0
    /\ ground_truth = <<>>
    /\ likelihoods = <<>>
    /\ warned = FALSE
    /\ model_stats = NoStats
    /\ overflow_checks = FALSE
    /\ epc = "idle"

NoOptions == [ensemble_size |-> 0]
NoSize == [error |-> FALSE, size |-> 0]
NoCall == [index |-> 0]

\* no ensemble is being trained or used
EnsIdle ==
    /\ train_tokens = <<>>
    /\ train_options = NoOptions
    /\ shards = <<>>
    /\ chunk_results = <<>>
    /\ finished = <<>>
    /\ trainer_call = NoCall
    /\ native = <<>>
    /\ use_after_free = FALSE
    /\ cdict_arg = 0
    /\ raw_new_text = <<>>
    /\ cctx = 0
    /\ compressed_size_val = NoSize
    /\ cpc = "idle"
    /\ calls = 0
    /\ mpc = "idle"

\* the tokenizer is not in use
TokIdle ==
    /\ tokens = EmptyMap
    /\ merges = <<>>
    /\ vocab_size = 0
    /\ token_byte_size = 0
    /\ train_text = <<>>
    /\ vocab = EmptyMap
    /\ chunks = <<>>
    /\ text = <<>>
    /\ normalized = <<>>
    /\ i = 0
    /\ output = <<>>
    /\ decoded = <<>>
    /\ pc = "idle"
    /\ first_run = NoRun

\* Option::None and Option::Some
None == <<>>
Some(x) == <<x>>

\* no command line is running
CliIdle ==
    /\ dir_exists = FALSE
    /\ model_files = EmptyMap
    /\ command = "none"
    /\ model_name = <<>>
    /\ chosen_model = None
    /\ loaded_run = [kind |-> "none"]
    /\ exit_status = "none"
    /\ clipc = "idle"

TrainTexts == SeqsUpTo(RawChars, MaxTrainLen)
EncodeTexts == SeqsUpTo(RawChars, MaxEncodeLen)

\* Tokenizer::new (tokenizer.rs:48-55)
TokInit ==
    /\ CliIdle
    /\ tokens = EmptyMap
    /\ merges = <<>>
    /\ vocab_size = 0
    /\ token_byte_size \in 0..MaxTokenBytes
    /\ train_text = <<>>
    /\ vocab = EmptyMap
    /\ chunks = <<>>
    /\ text = <<>>
    /\ normalized = <<>>
    /\ i = 0
    /\ output = <<>>
    /\ decoded = <<>>
    /\ pc = "new"
    /\ first_run = NoRun
    /\ LikIdle
    /\ EvalIdle
    /\ EnsIdle

\* train, up to the loop (tokenizer.rs:77-96)
TrainStart ==
    /\ pc = "new"
    /\ \E t \in TrainTexts, size \in 0..MaxVocabSize :
          /\ CASE first_run.mode = "off" -> first_run' = first_run
               [] first_run.mode = "first" ->
                    first_run' = [first_run EXCEPT !.text = t, !.vocab_size = size]
               [] first_run.mode = "second" ->
                    /\ t = first_run.text
                    /\ size = first_run.vocab_size
                    /\ first_run' = first_run
          /\ train_text' = t
          /\ vocab_size' = size
          /\ vocab' = CharVocab(normalize(t), token_byte_size)
          /\ chunks' = InitialChunks(normalize(t))
    /\ pc' = "train_loop"
    /\ UNCHANGED notTokVars
    /\ UNCHANGED <<tokens, merges, token_byte_size, text, normalized, i, output,
                   decoded>>

\* a merge whatever the size of the vocabulary
TrainMergeUnguarded ==
    /\ pc = "train_loop"
    /\ \E pair \in MaxPairs(chunks) :
          /\ merges' = Append(merges, <<pair[1], pair[2]>>)
          /\ vocab' = MapInsert(vocab, pair[1] \o pair[2],
                                compute_token_code(pair[1] \o pair[2], token_byte_size))
          /\ chunks' = ApplyMerge(chunks, pair[1], pair[2])
    /\ UNCHANGED notTokVars
    /\ UNCHANGED <<tokens, vocab_size, token_byte_size, train_text, text,
                   normalized, i, output, decoded, pc, first_run>>

\* one iteration of the loop that merges (tokenizer.rs:99-139)
TrainMerge ==
    /\ pc = "train_loop"
    /\ Cardinality(DOMAIN vocab) < vocab_size
    /\ \E pair \in MaxPairs(chunks) :
          LET first == pair[1]
              second == pair[2]
              new_token_str == first \o second
          IN /\ merges' = Append(merges, <<first, second>>)
             /\ vocab' = MapInsert(vocab, new_token_str,
                                   compute_token_code(new_token_str, token_byte_size))
             /\ chunks' = ApplyMerge(chunks, first, second)
    /\ UNCHANGED notTokVars
    /\ UNCHANGED <<tokens, vocab_size, token_byte_size, train_text, text,
                   normalized, i, output, decoded, pc, first_run>>

\* the loop's exits and the store of the vocabulary (tokenizer.rs:99, 140-146)
TrainStop ==
    /\ pc = "train_loop"
    /\ \/ Cardinality(DOMAIN vocab) >= vocab_size
       \/ AllPairs(chunks) = {}
    /\ tokens' = vocab
    /\ train_text' = <<>>
    /\ vocab' = EmptyMap
    /\ chunks' = <<>>
    /\ pc' = "trained"
    /\ UNCHANGED notTokVars
    /\ UNCHANGED <<merges, vocab_size, token_byte_size, text, normalized, i,
                   output, decoded, first_run>>

\* encode_fast_opt, up to the loop (tokenizer.rs:183-194)
EncodeStart ==
    /\ pc = "trained"
    /\ \E x \in EncodeTexts :
          /\ text' = x
          /\ normalized' = normalize(x)
    /\ i' = 0
    /\ output' = <<>>
    /\ pc' = "encoding"
    /\ UNCHANGED notTokVars
    /\ UNCHANGED <<tokens, merges, vocab_size, token_byte_size, train_text,
                   vocab, chunks, decoded, first_run>>

\* one iteration of the greedy loop (tokenizer.rs:208-235)
EncodeStep ==
    /\ pc = "encoding"
    /\ i < Len(normalized)
    /\ LET m == LongestMatch(tokens, normalized, i)
       IN IF m.found
          THEN /\ output' = Append(output, m.code)
               /\ i' = i + m.match_len
          ELSE /\ output' = output
               /\ i' = i + 1
    /\ UNCHANGED notTokVars
    /\ UNCHANGED <<tokens, merges, vocab_size, token_byte_size, train_text,
                   vocab, chunks, text, normalized, decoded, pc, first_run>>

\* the loop's exit (tokenizer.rs:208, 240)
EncodeReturn ==
    /\ pc = "encoding"
    /\ i >= Len(normalized)
    /\ pc' = "encoded"
    /\ UNCHANGED notTokVars
    /\ UNCHANGED <<tokens, merges, vocab_size, token_byte_size, train_text,
                   vocab, chunks, text, normalized, i, output, decoded, first_run>>

\* decode of the encoder's output (tokenizer.rs:248-263)
Decode ==
    /\ pc = "encoded"
    /\ \E reverse_tokens \in ReverseMaps(tokens) :
          decoded' = decode(reverse_tokens, output)
    /\ pc' = "decoded"
    /\ UNCHANGED notTokVars
    /\ UNCHANGED <<tokens, merges, vocab_size, token_byte_size, train_text,
                   vocab, chunks, text, normalized, i, output, first_run>>

TokNext ==
    \/ TrainStart \/ TrainMerge \/ TrainStop
    \/ EncodeStart \/ EncodeStep \/ EncodeReturn \/ Decode

SpecTok == TokInit /\ [][TokNext]_vars

(***************************************************************************)
(* Specification SpecTrainFair: one call of Tokenizer::train whose loop is *)
(* fair: an iteration that can run does run.                               *)
(***************************************************************************)
TrainOnce == TrainStart \/ TrainMerge \/ TrainStop

SpecTrainFair ==
    TokInit /\ [][TrainOnce]_vars /\ WF_vars(TrainMerge) /\ WF_vars(TrainStop)

(***************************************************************************)
(* Specification SpecTrain: Tokenizer::train called again and again on the *)
(* same tokenizer.                                                         *)
(***************************************************************************)
\* the caller trains the tokenizer once more (tokenizer.rs:76): the merge
\* list and the stored vocabulary stay as the earlier call left them
TrainAgain ==
    /\ pc = "trained"
    /\ Len(merges) < MaxMerges
    /\ pc' = "new"
    /\ UNCHANGED notTokVars
    /\ UNCHANGED <<tokens, merges, vocab_size, token_byte_size, train_text, vocab,
                   chunks, text, normalized, i, output, decoded, first_run>>

TrainNext == TrainStart \/ TrainMerge \/ TrainStop \/ TrainAgain

SpecTrain == TokInit /\ [][TrainNext]_vars

(***************************************************************************)
(* Two runs of Tokenizer::train: a tokenizer is trained, its vocabulary    *)
(* and merge list are kept, and a new tokenizer with the same              *)
(* token_byte_size is trained on the same text with the same target size.  *)
(***************************************************************************)
DetInit ==
    /\ CliIdle
    /\ tokens = EmptyMap
    /\ merges = <<>>
    /\ vocab_size = 0
    /\ token_byte_size \in 0..MaxTokenBytes
    /\ train_text = <<>>
    /\ vocab = EmptyMap
    /\ chunks = <<>>
    /\ text = <<>>
    /\ normalized = <<>>
    /\ i = 0
    /\ output = <<>>
    /\ decoded = <<>>
    /\ pc = "new"
    /\ first_run = [NoRun EXCEPT !.mode = "first"]
    /\ LikIdle
    /\ EvalIdle
    /\ EnsIdle

\* the first run's results are set aside; Tokenizer::new (tokenizer.rs:48-55)
NewRun ==
    /\ pc = "trained"
    /\ first_run.mode = "first"
    /\ first_run' = [first_run EXCEPT !.mode = "second", !.tokens = tokens,
                                      !.merges = merges]
    /\ tokens' = EmptyMap
    /\ merges' = <<>>
    /\ vocab_size' = 0
    /\ pc' = "new"
    /\ UNCHANGED notTokVars
    /\ UNCHANGED <<token_byte_size, train_text, vocab, chunks, text, normalized,
                   i, output, decoded>>

DetNext == TrainStart \/ TrainMerge \/ TrainStop \/ NewRun

SpecDet == DetInit /\ [][DetNext]_vars

(***************************************************************************)
(* Probabilities.  A float is the exact fraction [num, den] it stands for, *)
(* rounding left out; den = 0 is the result of a division by zero (an      *)
(* infinity when num > 0, NaN when num = 0).                               *)
(***************************************************************************)
RECURSIVE Gcd(_, _)
Gcd(a, b) == IF b = 0 THEN a ELSE Gcd(b, a % b)

Abs(n) == IF n < 0 THEN -n ELSE n

\* a fraction in lowest terms, its denominator not negative
Frac(n, d) ==
    IF d = 0 THEN [num |-> IF n = 0 THEN 0 ELSE 1, den |-> 0]
    ELSE LET g == Gcd(Abs(n), Abs(d))
             sign == IF d < 0 THEN -1 ELSE 1
         IN [num |-> sign * (n \div g), den |-> sign * (d \div g)]

IsFinite(x) == x.den /= 0
IsNegative(x) == x.den /= 0 /\ x.num * x.den < 0

FracAdd(x, y) ==
    IF x.den = 0 \/ y.den = 0 THEN Frac(0, 0)
    ELSE Frac(x.num * y.den + y.num * x.den, x.den * y.den)

FracDiv(x, y) ==
    IF x.den = 0 \/ y.den = 0 THEN Frac(0, 0)
    ELSE Frac(x.num * y.den, x.den * y.num)

\* the sum of a map's values (values().sum())
RECURSIVE FracSum(_, _)
FracSum(m, keys) ==
    IF keys = {} THEN Frac(0, 1)
    ELSE LET k == CHOOSE x \in keys : TRUE
         IN FracAdd(m[k], FracSum(m, keys \ {k}))

ValuesSum(m) == FracSum(m, DOMAIN m)

\* every value divided by the sum
Normalized(m) == LET sum == ValuesSum(m) IN [k \in DOMAIN m |-> FracDiv(m[k], sum)]

\* |sum - 1| <= 1/1000 (the tolerance of evaluate.rs:31)
SumsToOne(m) ==
    LET sum == ValuesSum(m)
    IN /\ IsFinite(sum)
       /\ 999 * sum.den <= 1000 * sum.num
       /\ 1000 * sum.num <= 1001 * sum.den

(***************************************************************************)
(* The baseline models (uniform_model.rs, ngram_model.rs).  A call returns *)
(* [status, likelihoods]; status "panic" is a Rust panic.                  *)
(***************************************************************************)
Returned(m) == [status |-> "ok", likelihoods |-> m]
Panicked == [status |-> "panic", likelihoods |-> EmptyMap]

\* the number of occurrences of x in the stream s
Occurrences(s, x) == Cardinality({k \in 1..Len(s) : s[k] = x})

\* the number of places of the stream s where a is followed by b
Transitions(s, a, b) ==
    Cardinality({k \in 1..(Len(s) - 1) : s[k] = a /\ s[k + 1] = b})

\* every token gets 1 / (|V| + 1)
UniformShifted(all_tokens) ==
    Returned([t \in Range(all_tokens) |-> Frac(1, Len(all_tokens) + 1)])

\* UniformModel::compute_likelihoods (uniform_model.rs:17-29)
UniformLikelihoods(all_tokens) ==
    LET uniform_probability == Frac(1, Len(all_tokens))
    IN Returned([t \in Range(all_tokens) |-> uniform_probability])

\* BigramModel::train (ngram_model.rs:16-32): tokens.len() - 1 underflows on
\* an empty stream, a panic in a checked build and an out-of-range index in
\* an unchecked one
BigramTrain(stream) ==
    IF stream = <<>> THEN [kind |-> "panic"]
    ELSE [kind |-> "bigram",
          transition_counts |->
            [a \in {stream[k] : k \in 1..(Len(stream) - 1)} |->
               [b \in {stream[k + 1] : k \in {j \in 1..(Len(stream) - 1) : stream[j] = a}} |->
                  Transitions(stream, a, b)]]]

\* BigramModel::compute_likelihoods (ngram_model.rs:35-75)
BigramLikelihoods(m, current_text, all_tokens) ==
    IF current_text = <<>> THEN Panicked
    ELSE LET last_token == current_text[Len(current_text)]
             raw ==
               IF last_token \in DOMAIN m.transition_counts
               THEN LET next_token_counts == m.transition_counts[last_token]
                        total_count == SumOver(next_token_counts,
                                               DOMAIN next_token_counts)
                        default_count == (total_count \div Len(all_tokens)) + 1
                    IN [t \in Range(all_tokens) |->
                          Frac((IF t \in DOMAIN next_token_counts
                                THEN next_token_counts[t] ELSE default_count) + 60, 1)]
               ELSE [t \in Range(all_tokens) |-> Frac(1, Len(all_tokens))]
             sum == ValuesSum(raw)
         IN Returned(IF IsFinite(sum) /\ sum.num > 0 THEN Normalized(raw) ELSE raw)

\* UnigramModel::train (ngram_model.rs:89-102)
UnigramTrain(stream) ==
    [kind |-> "unigram",
     token_counts |-> [t \in Range(stream) |-> Occurrences(stream, t)],
     total_tokens |-> Len(stream)]

\* every count divided by the length of the training stream
UnigramOverTotal(m, all_tokens) ==
    IF m.total_tokens > 0 /\ ~(Range(all_tokens) \subseteq DOMAIN m.token_counts)
    THEN Panicked
    ELSE Returned([t \in Range(all_tokens) |->
                     IF m.total_tokens > 0 THEN Frac(m.token_counts[t], m.total_tokens)
                     ELSE Frac(1, Len(all_tokens))])

\* UnigramModel::compute_likelihoods (ngram_model.rs:107-137)
UnigramLikelihoods(m, all_tokens) ==
    IF m.total_tokens > 0 /\ ~(Range(all_tokens) \subseteq DOMAIN m.token_counts)
    THEN Panicked
    ELSE LET raw ==
               IF m.total_tokens > 0
               THEN [t \in Range(all_tokens) |-> Frac(m.token_counts[t], 1)]
               ELSE [t \in Range(all_tokens) |-> Frac(1, Len(all_tokens))]
             sum == ValuesSum(raw)
         IN Returned(IF IsFinite(sum) /\ sum.num > 0 THEN Normalized(raw) ELSE raw)

(***************************************************************************)
(* The ensemble model (clm_model.rs).  The compression primitive is a      *)
(* black box that returns a compressed length: it is modelled by a frame   *)
(* of FrameBytes bytes plus one byte for every input byte that the         *)
(* dictionary does not hold.  A prepared dictionary (ZSTD_CDict) is the    *)
(* record of what it was built from.                                       *)
(***************************************************************************)
FrameBytes == 1

\* ZSTD_createCDict (clm_model.rs:76-80, 197-201): the handle at address addr
CreateCDict(dict, level, addr) == [addr |-> addr, dict |-> dict, level |-> level]

\* the prepared dictionaries built from the reversed list
PreparedReversed(dicts, level, base) ==
    [k \in 1..Len(dicts) |-> CreateCDict(dicts[Len(dicts) + 1 - k], level, base + k)]

\* the map over the dictionaries, in their order (clm_model.rs:73-82, 194-203);
\* the handles take the addresses after base
PreparedDicts(dicts, level, base) ==
    [k \in 1..Len(dicts) |-> CreateCDict(dicts[k], level, base + k)]

\* the length ZSTD_compress_usingCDict returns (clm_model.rs:161-169)
CompressedSize(cdict, raw) ==
    FrameBytes + Cardinality({k \in 1..Len(raw) : raw[k] \notin Range(cdict.dict)})

\* basis^(-k/e) in units of 1/Precision, rounded up (powf, clm_model.rs:124):
\* the least x with (x / Precision)^e >= basis^(-k)
Precision == 16

PowNeg(basis, k, e) ==
    IF k = 0 \/ e = 0 THEN Frac(1, 1)
    ELSE LET up == IF k > 0 THEN basis.den ELSE basis.num
             down == IF k > 0 THEN basis.num ELSE basis.den
             goal == Pow(Precision, e) * Pow(up, Abs(k))
             r == CHOOSE x \in 0..(Precision * Pow((up \div down) + 1, Abs(k))) :
                     /\ Pow(x, e) * Pow(down, Abs(k)) >= goal
                     /\ x = 0 \/ Pow(x - 1, e) * Pow(down, Abs(k)) < goal
         IN Frac(r, Precision)

\* the context: the last context_window tokens (clm_model.rs:96-98)
Context(current_text, context_window) ==
    LET context_size == IF Len(current_text) < context_window
                        THEN Len(current_text) ELSE context_window
    IN SubSeq(current_text, Len(current_text) - context_size + 1, Len(current_text))

\* the sum over the dictionaries and over the occurrences of token t in
\* all_tokens of compressed_size - base_size (clm_model.rs:107-120)
DeltaSum(cdicts, context, all_tokens, t) ==
    LET base_text == Flatten(context)
        delta[d \in 1..Len(cdicts)] ==
            CompressedSize(cdicts[d], Flatten(Append(context, t)))
                - CompressedSize(cdicts[d], base_text)
        total[d \in 0..Len(cdicts)] ==
            IF d = 0 THEN 0
            ELSE total[d - 1] + delta[d] * Occurrences(all_tokens, t)
    IN total[Len(cdicts)]

\* ClmModel::compute_likelihoods (clm_model.rs:91-148)
ClmLikelihoods(m, current_text, all_tokens) ==
    LET context == Context(current_text, m.options.context_window)
        inverted_scores ==
            [t \in Range(all_tokens) |->
               PowNeg(m.options.inference_basis,
                      DeltaSum(m.zstd_cdicts, context, all_tokens, t),
                      Len(m.zstd_cdicts))]
        softmax_scores == Normalized(inverted_scores)
        regularized_scores ==
            [t \in Range(all_tokens) |->
               FracAdd(softmax_scores[t],
                       FracDiv(m.options.regularization, Frac(Len(all_tokens), 1)))]
    IN Returned(Normalized(regularized_scores))

(***************************************************************************)
(* Persistence of the dictionaries (clm_model.rs:186-212).  A JSON text is *)
(* the sequence of its lexical tokens: "[", "]", "," and numbers.          *)
(***************************************************************************)
Lex(t, v) == [t |-> t, v |-> v]
Open == Lex("[", 0)
Close == Lex("]", 0)
Comma == Lex(",", 0)

\* the items, with a comma between two of them
RECURSIVE Joined(_)
Joined(items) ==
    IF items = <<>> THEN <<>>
    ELSE IF Len(items) = 1 THEN items[1]
    ELSE items[1] \o <<Comma>> \o Joined(Tail(items))

\* serde_json::to_string of a Vec<u8>
SerializeBytes(bytes) ==
    <<Open>> \o Joined([k \in 1..Len(bytes) |-> <<Lex("n", bytes[k])>>]) \o <<Close>>

\* ClmModel::to_save_string (clm_model.rs:186-188)
to_save_string(dicts) ==
    <<Open>> \o Joined([k \in 1..Len(dicts) |-> SerializeBytes(dicts[k])]) \o <<Close>>

ParseError == [ok |-> FALSE, val |-> <<>>, next |-> 0]
Parsed(val, next) == [ok |-> TRUE, val |-> val, next |-> next]

IsLex(str, p, t) == p <= Len(str) /\ str[p].t = t

\* the numbers of a byte array, from position p, after the first one
RECURSIVE ParseBytesRest(_, _, _)
ParseBytesRest(str, p, acc) ==
    IF IsLex(str, p, "]") THEN Parsed(acc, p + 1)
    ELSE IF IsLex(str, p, ",") /\ IsLex(str, p + 1, "n") /\ str[p + 1].v < ByteRange
         THEN ParseBytesRest(str, p + 2, Append(acc, str[p + 1].v))
         ELSE ParseError

\* a Vec<u8> at position p
ParseBytes(str, p) ==
    IF ~IsLex(str, p, "[") THEN ParseError
    ELSE IF IsLex(str, p + 1, "]") THEN Parsed(<<>>, p + 2)
    ELSE IF IsLex(str, p + 1, "n") /\ str[p + 1].v < ByteRange
         THEN ParseBytesRest(str, p + 2, <<str[p + 1].v>>)
         ELSE ParseError

RECURSIVE ParseDictsRest(_, _, _)
ParseDictsRest(str, p, acc) ==
    IF IsLex(str, p, "]") THEN Parsed(acc, p + 1)
    ELSE IF IsLex(str, p, ",")
         THEN LET item == ParseBytes(str, p + 1)
              IN IF item.ok THEN ParseDictsRest(str, item.next, Append(acc, item.val))
                 ELSE ParseError
         ELSE ParseError

\* serde_json::from_str of a Vec<Vec<u8>> (clm_model.rs:191-192)
ParseDicts(str) ==
    IF ~IsLex(str, 1, "[") THEN ParseError
    ELSE LET body ==
               IF IsLex(str, 2, "]") THEN Parsed(<<>>, 3)
               ELSE LET item == ParseBytes(str, 2)
                    IN IF item.ok THEN ParseDictsRest(str, item.next, <<item.val>>)
                       ELSE ParseError
         IN IF body.ok /\ body.next = Len(str) + 1 THEN body ELSE ParseError

\* ClmModel::load_from_string (clm_model.rs:190-212)
load_from_string(dict_string, options, base) ==
    LET parsed == ParseDicts(dict_string)
    IN IF ~parsed.ok THEN [kind |-> "panic"]
       ELSE [kind |-> "clm",
             dictionaries |-> parsed.val,
             zstd_cdicts |-> PreparedDicts(parsed.val, options.train_compression_level, base),
             options |-> options]

(***************************************************************************)
(* Persistence of a run (mod.rs:15-50).  The JSON text of a SavedRun is    *)
(* the sequence of its lexical tokens: braces, field names, map keys,      *)
(* strings, integers and decimal numbers.  A float is written as a decimal *)
(* (digits, scale) and read back as digits / 10^scale.                     *)
(***************************************************************************)
ObjOpen == Lex("{", 0)
ObjClose == Lex("}", 0)
Field(name) == Lex("field", name)
Key(fragment) == Lex("key", fragment)
Str(content) == Lex("s", content)
Num(n) == Lex("n", n)

\* the shortest decimal of a finite value: the least scale that makes
\* value * 10^scale whole
RECURSIVE ScaleOf(_, _)
ScaleOf(x, scale) ==
    IF (x.num * Pow(10, scale)) % x.den = 0 \/ scale >= MaxDigits THEN scale
    ELSE ScaleOf(x, scale + 1)

\* the value cut to a whole number
FloatTruncated(x) == [digits |-> x.num \div x.den, scale |-> 0]

FloatToDecimal(x) ==
    [digits |-> (x.num * Pow(10, ScaleOf(x, 0))) \div x.den, scale |-> ScaleOf(x, 0)]

DecimalToFloat(d) == Frac(d.digits, Pow(10, d.scale))

Float(x) == Lex("f", FloatToDecimal(x))

\* the fields of TrainingOptions the model carries, in their declared order
\* (training_options.rs:6-29), and those that are f64
OptionFields ==
    <<"train_compression_level", "dictionary_size_percentage", "ensemble_size",
      "training_chunk_size", "context_window", "regularization", "model_id",
      "inference_basis">>
FloatFields == {"dictionary_size_percentage", "regularization", "inference_basis"}

OptionalFields == {"model_id"}
Null == Lex("null", 0)

\* the JSON value of the field `name` holding x: a decimal, null or a
\* string, or an integer
WriteOption(name, x) ==
    IF name \in FloatFields THEN Float(x)
    ELSE IF name \in OptionalFields
         THEN IF x = <<>> THEN Null ELSE Str(x[1])
         ELSE Num(x)

\* serde_json::to_string of a TrainingOptions
SerializeOptions(o) ==
    <<ObjOpen>>
    \o Joined([k \in 1..Len(OptionFields) |->
                 <<Field(OptionFields[k]), WriteOption(OptionFields[k], o[OptionFields[k]])>>])
    \o <<ObjClose>>

\* serde_json::to_string of the vocabulary, its entries in the iteration
\* order of the hash map
SerializeTokens(toks, order) ==
    <<ObjOpen>>
    \o Joined([k \in 1..Len(order) |-> <<Key(order[k])>> \o SerializeBytes(toks[order[k]])])
    \o <<ObjClose>>

\* serde_json::to_string of the merge list, each pair a two-element array
SerializeMerges(pairs) ==
    <<Open>>
    \o Joined([k \in 1..Len(pairs) |->
                 <<Open, Str(pairs[k][1]), Comma, Str(pairs[k][2]), Close>>])
    \o <<Close>>

\* serde_json::to_string of a Tokenizer (tokenizer.rs:10-20)
SerializeTokenizer(t, order) ==
    <<ObjOpen, Field("tokens")>> \o SerializeTokens(t.tokens, order)
    \o <<Comma, Field("merges")>> \o SerializeMerges(t.merges)
    \o <<Comma, Field("vocab_size"), Num(t.vocab_size)>>
    \o <<Comma, Field("token_byte_size"), Num(t.token_byte_size), ObjClose>>

\* the text save_run writes (mod.rs:30-35): the dictionaries as a string
\* that holds their own JSON text, the tokenizer, the options
SerializeRun(m, t, order) ==
    <<ObjOpen, Field("dicts"), Str(to_save_string(m.dictionaries))>>
    \o <<Comma, Field("tokenizer")>> \o SerializeTokenizer(t, order)
    \o <<Comma, Field("training_options")>> \o SerializeOptions(m.options)
    \o <<ObjClose>>

IsField(str, p, name) == IsLex(str, p, "field") /\ str[p].v = name

\* the value of the field `name` at position p
ReadOption(str, p, name) ==
    IF name \in FloatFields
    THEN IF IsLex(str, p, "f") THEN Parsed(DecimalToFloat(str[p].v), p + 1) ELSE ParseError
    ELSE IF name \in OptionalFields
         THEN IF IsLex(str, p, "null") THEN Parsed(<<>>, p + 1)
              ELSE IF IsLex(str, p, "s") THEN Parsed(<<str[p].v>>, p + 1) ELSE ParseError
         ELSE IF IsLex(str, p, "n") THEN Parsed(str[p].v, p + 1) ELSE ParseError

\* the entries of the options from position p, the k-th field first
RECURSIVE ParseOptionFields(_, _, _, _)
ParseOptionFields(str, p, k, acc) ==
    IF k > Len(OptionFields)
    THEN IF IsLex(str, p, "}") THEN Parsed(acc, p + 1) ELSE ParseError
    ELSE LET name == OptionFields[k]
             q == IF k = 1 THEN p ELSE p + 1
         IN IF (k > 1 /\ ~IsLex(str, p, ",")) \/ ~IsField(str, q, name)
            THEN ParseError
            ELSE LET value == ReadOption(str, q + 1, name)
                 IN IF value.ok
                    THEN ParseOptionFields(str, value.next, k + 1,
                                           MapInsert(acc, name, value.val))
                    ELSE ParseError

\* serde_json::from_str of a TrainingOptions at position p
ParseOptions(str, p) ==
    IF IsLex(str, p, "{") THEN ParseOptionFields(str, p + 1, 1, EmptyMap)
    ELSE ParseError

\* the entries of the vocabulary from position p
RECURSIVE ParseTokenEntries(_, _, _)
ParseTokenEntries(str, p, acc) ==
    IF IsLex(str, p, "}") THEN Parsed(acc, p + 1)
    ELSE LET q == IF acc = EmptyMap THEN p ELSE p + 1
         IN IF (acc /= EmptyMap /\ ~IsLex(str, p, ",")) \/ ~IsLex(str, q, "key")
            THEN ParseError
            ELSE LET code == ParseBytes(str, q + 1)
                 IN IF code.ok
                    THEN ParseTokenEntries(str, code.next,
                                           MapInsert(acc, str[q].v, code.val))
                    ELSE ParseError

\* the pairs of the merge list from position p
RECURSIVE ParseMergePairs(_, _, _)
ParseMergePairs(str, p, acc) ==
    IF IsLex(str, p, "]") THEN Parsed(acc, p + 1)
    ELSE LET q == IF acc = <<>> THEN p ELSE p + 1
         IN IF (acc /= <<>> /\ ~IsLex(str, p, ","))
               \/ ~(/\ IsLex(str, q, "[") /\ IsLex(str, q + 1, "s")
                    /\ IsLex(str, q + 2, ",") /\ IsLex(str, q + 3, "s")
                    /\ IsLex(str, q + 4, "]"))
            THEN ParseError
            ELSE ParseMergePairs(str, q + 5, Append(acc, <<str[q + 1].v, str[q + 3].v>>))

\* serde_json::from_str of a Tokenizer at position p
ParseTokenizer(str, p) ==
    IF ~(IsLex(str, p, "{") /\ IsField(str, p + 1, "tokens") /\ IsLex(str, p + 2, "{"))
    THEN ParseError
    ELSE LET toks == ParseTokenEntries(str, p + 3, EmptyMap)
         IN IF ~(/\ toks.ok /\ IsLex(str, toks.next, ",")
                 /\ IsField(str, toks.next + 1, "merges")
                 /\ IsLex(str, toks.next + 2, "["))
            THEN ParseError
            ELSE LET pairs == ParseMergePairs(str, toks.next + 3, <<>>)
                     q == pairs.next
                 IN IF ~(/\ pairs.ok /\ IsLex(str, q, ",")
                         /\ IsField(str, q + 1, "vocab_size") /\ IsLex(str, q + 2, "n")
                         /\ IsLex(str, q + 3, ",")
                         /\ IsField(str, q + 4, "token_byte_size")
                         /\ IsLex(str, q + 5, "n") /\ IsLex(str, q + 6, "}"))
                    THEN ParseError
                    ELSE Parsed([tokens |-> toks.val, merges |-> pairs.val,
                                 vocab_size |-> str[q + 2].v,
                                 token_byte_size |-> str[q + 5].v], q + 7)

\* serde_json::from_str of a SavedRun (mod.rs:45)
ParseRun(str) ==
    IF ~(/\ IsLex(str, 1, "{") /\ IsField(str, 2, "dicts") /\ IsLex(str, 3, "s")
         /\ IsLex(str, 4, ",") /\ IsField(str, 5, "tokenizer"))
    THEN ParseError
    ELSE LET t == ParseTokenizer(str, 6)
         IN IF ~(/\ t.ok /\ IsLex(str, t.next, ",")
                 /\ IsField(str, t.next + 1, "training_options"))
            THEN ParseError
            ELSE LET o == ParseOptions(str, t.next + 2)
                 IN IF o.ok /\ IsLex(str, o.next, "}") /\ o.next = Len(str)
                    THEN Parsed([dicts |-> str[3].v, tokenizer |-> t.val,
                                 training_options |-> o.val], o.next + 1)
                    ELSE ParseError

\* clm::load (mod.rs:42-50), the file read: the model and the tokenizer, or
\* a panic
load(contents) ==
    LET saved_run == ParseRun(contents)
    IN IF ~saved_run.ok THEN [kind |-> "panic"]
       ELSE LET loaded == load_from_string(saved_run.val.dicts,
                                           saved_run.val.training_options, 0)
            IN IF loaded.kind = "panic" THEN [kind |-> "panic"]
               ELSE [kind |-> "run", model |-> loaded,
                     tokenizer |-> saved_run.val.tokenizer]

(***************************************************************************)
(* The models' operations: a model is trained (the ensemble is loaded from *)
(* its saved dictionaries), then asked for the likelihoods of the tokens   *)
(* of a vocabulary after a prefix.                                         *)
(***************************************************************************)
TokenCodes == {<<b>> : b \in 1..MaxTokenCode}
Streams == SeqsUpTo(TokenCodes, MaxStreamLen)
\* a token that no training stream holds
UnseenToken == <<MaxTokenCode + 1>>

PrefixTexts == SeqsUpTo(TokenCodes, MaxPrefixLen) \cup {<<UnseenToken>>}

\* the dictionary lists of the ensembles whose distributions are computed
LikDicts == {<<>>, <<<<1>>>>, <<<<1, 2>>, <<1>>>>}
Vocabularies == SeqsUpTo(TokenCodes, MaxVocabLen)

\* the dictionary lists a saved ensemble may hold
SavedDicts == SeqsUpTo({<<1>>, <<1, 2>>}, MaxDicts)

\* texts that are not the JSON of a list of byte arrays
Malformed == {<<>>, <<Open>>, <<Open, Open, Lex("n", ByteRange), Close, Close>>,
              <<Open, Open, Close, Comma, Close>>}

\* TrainingOptions (training_options.rs:6-29), the fields the model reads
ClmOptions ==
    [ensemble_size : {1}, training_chunk_size : {1},
     dictionary_size_percentage : {Frac(8, 100)},
     train_compression_level : {21},
     context_window : {0, 1},
     regularization : {Frac(0, 1), Frac(15, 100)},
     inference_basis : {Frac(2, 1), Frac(3, 2)}]

\* a unigram model that answers an empty prefix with the uniform distribution
PrefixAwareLikelihoods(m, prefix, vocabulary) ==
    CASE m.kind = "uniform" -> UniformLikelihoods(vocabulary)
      [] m.kind = "bigram" -> BigramLikelihoods(m, prefix, vocabulary)
      [] m.kind = "unigram" -> IF prefix = <<>> THEN UniformLikelihoods(vocabulary)
                               ELSE UnigramLikelihoods(m, vocabulary)
      [] m.kind = "clm" -> ClmLikelihoods(m, prefix, vocabulary)

\* Model::compute_likelihoods of the model m
compute_likelihoods(m, prefix, vocabulary) ==
    CASE m.kind = "uniform" -> UniformLikelihoods(vocabulary)
      [] m.kind = "bigram" -> BigramLikelihoods(m, prefix, vocabulary)
      [] m.kind = "unigram" -> UnigramLikelihoods(m, vocabulary)
      [] m.kind = "clm" -> ClmLikelihoods(m, prefix, vocabulary)

\* UniformModel::train (uniform_model.rs:12-14)
TrainUniform ==
    /\ lpc = "start"
    /\ \E stream \in Streams :
          /\ model' = [kind |-> "uniform"]
          /\ train_call' = [kind |-> "uniform", tokens |-> stream]
    /\ lpc' = "trained"
    /\ UNCHANGED <<given_text, given_tokens, token_likelihoods>>
    /\ UNCHANGED notLikVars

\* BigramModel::train (ngram_model.rs:16-32)
TrainBigram ==
    /\ lpc = "start"
    /\ \E stream \in Streams :
          /\ model' = BigramTrain(stream)
          /\ train_call' = [kind |-> "bigram", tokens |-> stream]
          /\ lpc' = IF BigramTrain(stream).kind = "panic" THEN "panicked" ELSE "trained"
    /\ UNCHANGED <<given_text, given_tokens, token_likelihoods>>
    /\ UNCHANGED notLikVars

\* UnigramModel::train (ngram_model.rs:89-102)
TrainUnigram ==
    /\ lpc = "start"
    /\ \E stream \in Streams :
          /\ model' = UnigramTrain(stream)
          /\ train_call' = [kind |-> "unigram", tokens |-> stream]
    /\ lpc' = "trained"
    /\ UNCHANGED <<given_text, given_tokens, token_likelihoods>>
    /\ UNCHANGED notLikVars

\* ClmModel::load_from_string (clm_model.rs:190-212)
LoadClm ==
    /\ lpc = "start"
    /\ \E dict_string \in {to_save_string(d) : d \in LikDicts} \cup Malformed,
          options \in ClmOptions :
          /\ model' = load_from_string(dict_string, options, 0)
          /\ lpc' = IF load_from_string(dict_string, options, 0).kind = "panic"
                    THEN "panicked" ELSE "trained"
    /\ UNCHANGED <<train_call, given_text, given_tokens, token_likelihoods>>
    /\ UNCHANGED notLikVars

\* a call of compute_likelihoods
ComputeLikelihoods ==
    /\ lpc = "trained"
    /\ \E prefix \in PrefixTexts, vocabulary \in Vocabularies :
          /\ given_text' = prefix
          /\ given_tokens' = vocabulary
          /\ token_likelihoods' = compute_likelihoods(model, prefix, vocabulary)
          /\ lpc' = IF compute_likelihoods(model, prefix, vocabulary).status = "panic"
                    THEN "panicked" ELSE "returned"
    /\ UNCHANGED <<model, train_call>>
    /\ UNCHANGED notLikVars

LikInit ==
    /\ CliIdle
    /\ TokIdle
    /\ EvalIdle
    /\ EnsIdle
    /\ model = NoModel
    /\ train_call = NoTrain
    /\ given_text = <<>>
    /\ given_tokens = <<>>
    /\ token_likelihoods = [status |-> "none", likelihoods |-> EmptyMap]
    /\ lpc = "start"

LikNext ==
    \/ TrainUniform \/ TrainBigram \/ TrainUnigram \/ LoadClm
    \/ ComputeLikelihoods

SpecLik == LikInit /\ [][LikNext]_vars

(***************************************************************************)
(* Evaluation (evaluate.rs).  A trained tokenizer and a trained model are  *)
(* given; the test text is encoded and every position from WarmUp on is    *)
(* scored.                                                                 *)
(***************************************************************************)
WarmUp == 32

\* Tokenizer::encode_fast: the whole greedy loop of encode_fast_opt
RECURSIVE EncodeFrom(_, _, _, _)
EncodeFrom(toks, norm, start, out) ==
    IF start >= Len(norm) THEN out
    ELSE LET m == LongestMatch(toks, norm, start)
         IN IF m.found
            THEN EncodeFrom(toks, norm, start + m.match_len, Append(out, m.code))
            ELSE EncodeFrom(toks, norm, start + 1, out)

encode_fast(toks, t) == EncodeFrom(toks, normalize(t), 0, <<>>)

\* Tokenizer::get_tokens (tokenizer.rs:61-63): the codes of the vocabulary,
\* one per fragment, in the iteration order of the hash map
get_tokens(toks) ==
    {[k \in 1..Cardinality(DOMAIN toks) |-> toks[order[k]]] :
        order \in {o \in [1..Cardinality(DOMAIN toks) -> DOMAIN toks] :
                     \A a, b \in DOMAIN o : a /= b => o[a] /= o[b]}}

\* n copies of a pattern, cut to len characters
RECURSIVE Repeated(_, _)
Repeated(pattern, len) ==
    IF len = 0 THEN <<>>
    ELSE Append(Repeated(pattern, len - 1), pattern[((len - 1) % Len(pattern)) + 1])

TestPatterns == {<<"a">>, <<"a", " ">>, <<" ", "a", "a">>, <<"1", "a">>}
TestTexts == {Repeated(p, len) : p \in TestPatterns, len \in 0..MaxTestLen}

\* the vocabularies Tokenizer::train leaves on the text "a " for the target
\* sizes 2 and 3
EvalTokenizers ==
    UNION {{CharVocab(<<"a", " ">>, tbs),
            MapInsert(CharVocab(<<"a", " ">>, tbs), <<"a", " ">>,
                      compute_token_code(<<"a", " ">>, tbs))} :
           tbs \in 0..MaxTokenBytes}

\* the training texts of the evaluated models
EvalTrainTexts == {<<>>, <<"a">>, <<"a", " ", "a">>, <<" ", " ", "a", "a">>}

\* the models trained on the encoding of a training text (cli.rs:150-171),
\* and the ensemble as eval_model loads it (cli.rs:140-141)
EvalModels(toks) ==
    {[kind |-> "uniform"]}
    \cup {BigramTrain(encode_fast(toks, t)) : t \in EvalTrainTexts \ {<<>>}}
    \cup {UnigramTrain(encode_fast(toks, t)) : t \in EvalTrainTexts}
    \cup {load_from_string(to_save_string(<<<<CharCode("a")>>>>), o, 0) :
            o \in {x \in ClmOptions : x.regularization = Frac(15, 100)}}

\* check_distribution (evaluate.rs:22-34)
check_distribution(dist) ==
    IF \E t \in DOMAIN dist : ~IsFinite(dist[t]) \/ IsNegative(dist[t])
    THEN "panic"
    ELSE IF SumsToOne(dist) THEN "ok" ELSE "warning"

\* calculate_model_stats (evaluate.rs:96-120), the quantities that are exact:
\* len() - 1 underflows on an empty list, a panic where overflow is checked
\* and a wrap to the largest usize where it is not
calculate_model_stats(recorded, vocabulary, checked) ==
    IF recorded = <<>> /\ checked THEN [status |-> "panic"]
    ELSE [status |-> "ok",
          count |-> Len(recorded),
          average_likelihood |-> FracDiv(ValuesSum(recorded), Frac(Len(recorded), 1)),
          variance_divisor |-> (Len(recorded) - 1) % Pow(2, UsizeWidth),
          vocabulary_size |-> Len(vocabulary)]

\* evaluate.rs:55-72: encode the text, list the vocabulary
EvalStart ==
    /\ epc = "start"
    /\ \E t \in TestTexts, all_tokens \in get_tokens(tokens) :
          /\ eval_tokens' = encode_fast(tokens, t)
          /\ given_tokens' = all_tokens
    /\ pos' = WarmUp
    /\ likelihoods' = <<>>
    /\ epc' = "loop"
    /\ UNCHANGED <<model, train_call, given_text, token_likelihoods, lpc>>
    /\ UNCHANGED <<ground_truth, warned, model_stats, overflow_checks>>
    /\ UNCHANGED <<tokVars, ensVars, cliVars>>

\* evaluate.rs:73-78: the prefix, the ground truth, the model's call and the
\* check of what it returned
EvalCompute ==
    /\ epc = "loop"
    /\ pos < Len(eval_tokens)
    /\ LET current_text == SubSeq(eval_tokens, 1, pos - 1)
           returned == compute_likelihoods(model, current_text, given_tokens)
       IN /\ given_text' = current_text
          /\ ground_truth' = eval_tokens[pos + 1]
          /\ token_likelihoods' = returned
          /\ IF returned.status = "panic"
                \/ check_distribution(returned.likelihoods) = "panic"
             THEN epc' = "panicked" /\ warned' = warned
             ELSE /\ epc' = "score"
                  /\ warned' = (warned \/ check_distribution(returned.likelihoods) = "warning")
    /\ UNCHANGED <<model, train_call, given_tokens, lpc>>
    /\ UNCHANGED <<eval_tokens, pos, likelihoods, model_stats, overflow_checks>>
    /\ UNCHANGED <<tokVars, ensVars, cliVars>>

\* evaluate.rs:80-85: the ground truth's probability, the running
\* statistics, the push
EvalRecord ==
    /\ epc = "score"
    /\ IF ground_truth \notin DOMAIN token_likelihoods.likelihoods
          \/ calculate_model_stats(likelihoods, given_tokens, overflow_checks).status = "panic"
       THEN /\ epc' = "panicked"
            /\ UNCHANGED <<likelihoods, pos>>
       ELSE /\ likelihoods' = Append(likelihoods, token_likelihoods.likelihoods[ground_truth])
            /\ pos' = pos + 1
            /\ epc' = "loop"
    /\ UNCHANGED likVars
    /\ UNCHANGED <<eval_tokens, ground_truth, warned, model_stats, overflow_checks>>
    /\ UNCHANGED <<tokVars, ensVars, cliVars>>

\* evaluate.rs:88-92: the statistics of the whole run
EvalFinish ==
    /\ epc = "loop"
    /\ pos >= Len(eval_tokens)
    /\ model_stats' = calculate_model_stats(likelihoods, given_tokens, overflow_checks)
    /\ epc' = IF calculate_model_stats(likelihoods, given_tokens, overflow_checks).status = "panic"
              THEN "panicked" ELSE "done"
    /\ UNCHANGED likVars
    /\ UNCHANGED <<eval_tokens, pos, ground_truth, likelihoods, warned, overflow_checks>>
    /\ UNCHANGED <<tokVars, ensVars, cliVars>>

EvalInit ==
    /\ CliIdle
    /\ tokens \in EvalTokenizers
    /\ merges = <<>>
    /\ vocab_size = 0
    /\ token_byte_size = 0
    /\ train_text = <<>>
    /\ vocab = EmptyMap
    /\ chunks = <<>>
    /\ text = <<>>
    /\ normalized = <<>>
    /\ i = 0
    /\ output = <<>>
    /\ decoded = <<>>
    /\ pc = "trained"
    /\ first_run = NoRun
    /\ model \in EvalModels(tokens)
    /\ train_call = NoTrain
    /\ given_text = <<>>
    /\ given_tokens = <<>>
    /\ token_likelihoods = [status |-> "none", likelihoods |-> EmptyMap]
    /\ lpc = "idle"
    /\ eval_tokens = <<>>
    /\ pos = 0
    /\ ground_truth = <<>>
    /\ likelihoods = <<>>
    /\ warned = FALSE
    /\ model_stats = NoStats
    /\ overflow_checks \in BOOLEAN
    /\ epc = "start"
    /\ EnsIdle

EvalNext == EvalStart \/ EvalCompute \/ EvalRecord \/ EvalFinish

SpecEval == EvalInit /\ [][EvalNext]_vars

(***************************************************************************)
(* The ensemble's life: ClmModel::train with its parallel per-shard        *)
(* trainings (trainer.rs), ClmModel::load_from_string, the calls of        *)
(* ClmModel::compress, and Drop.  The dictionary trainer is a black box:   *)
(* the dictionary it returns is modelled by the leading bytes of the       *)
(* shard, at most buffer_size of them, and it may report an error.         *)
(***************************************************************************)
MinBufferSize == 256
MinSamples == 5

\* the stream of n tokens, the k-th being the one byte k
TokenStream(n) == [k \in 1..n |-> <<k>>]

\* (tokens.len() as f64 / ensemble_size as f64).ceil() as usize
\* (clm_model.rs:42-43): 0/0 is NaN and casts to 0, n/0 is infinite and
\* casts to the largest usize
ShardSize(n, ensemble_size) ==
    IF ensemble_size = 0
    THEN IF n = 0 THEN 0 ELSE Pow(2, UsizeWidth) - 1
    ELSE (n + ensemble_size - 1) \div ensemble_size

\* a trainer that asserts nothing
NothingAsserted(sizes, buffer_size, raw_len) == TRUE

\* the assertions before the native call (trainer.rs:26-33)
Asserted(sizes, buffer_size, raw_len) ==
    /\ buffer_size >= MinBufferSize
    /\ Len(sizes) >= MinSamples
    /\ SumOver(sizes, DOMAIN sizes) = raw_len

\* trainer::train_model (trainer.rs:7-54), the native trainer not failing
train_model(input_tokens, training_options) ==
    IF input_tokens = <<>> \/ training_options.training_chunk_size = 0
    THEN [status |-> "panic", native_called |-> FALSE, sizes |-> <<>>,
          raw_len |-> 0, buffer_size |-> 0, dict |-> <<>>]
    ELSE LET samples ==
                 [k \in 1..Len(Chunked(input_tokens, training_options.training_chunk_size))
                    |-> Flatten(Chunked(input_tokens,
                                        training_options.training_chunk_size)[k])]
             sizes == [k \in 1..Len(samples) |-> Len(samples[k])]
             raw_data == Flatten(samples)
             percentage == training_options.dictionary_size_percentage
             scaled == (Len(raw_data) * percentage.num) \div percentage.den
             buffer_size == IF scaled > MinBufferSize THEN scaled ELSE MinBufferSize
         IN IF ~Asserted(sizes, buffer_size, Len(raw_data))
            THEN [status |-> "panic", native_called |-> FALSE, sizes |-> sizes,
                  raw_len |-> Len(raw_data), buffer_size |-> buffer_size,
                  dict |-> <<>>]
            ELSE [status |-> "ok", native_called |-> TRUE, sizes |-> sizes,
                  raw_len |-> Len(raw_data), buffer_size |-> buffer_size,
                  dict |-> SubSeq(raw_data, 1,
                                  IF Len(raw_data) < buffer_size
                                  THEN Len(raw_data) ELSE buffer_size)]

\* a collect that appends the results as they arrive
ArrivalSlot(index, completed) == completed + 1

\* the slot of the collected list that receives the result of the training
\* of shard `index` when `completed` trainings have ended before it: the
\* collect of an indexed parallel iterator keeps the index
\* (clm_model.rs:57-67)
ResultSlot(index, completed) == index

\* the handles of freshly prepared dictionaries, none freed
NativeOf(cdicts) == [a \in 1..Len(cdicts) |-> [kind |-> "cdict", frees |-> 0]]

\* a drop that leaves the last handle alone
DroppedButLast(cdicts) == {cdicts[k].addr : k \in 1..(Len(cdicts) - 1)}

\* the handles Drop hands to ZSTD_freeCDict (clm_model.rs:28-37)
Dropped(cdicts) == {cdicts[k].addr : k \in 1..Len(cdicts)}

NoResult == [done |-> FALSE, dict |-> <<>>]

TrainOptions ==
    [ensemble_size : 0..MaxEnsemble, training_chunk_size : 0..MaxSampleSize,
     dictionary_size_percentage : {Frac(8, 100)},
     train_compression_level : {21},
     context_window : {1},
     regularization : {Frac(0, 1)},
     inference_basis : {Frac(2, 1)}]

\* a call of train_model by itself, on any token list, the empty one
\* included (trainer.rs:7-54); the native trainer may report an error
\* (trainer.rs:48-50)
CallTrainer ==
    /\ mpc = "start"
    /\ \E n \in 0..MaxTokens, options \in TrainOptions, native_error \in BOOLEAN :
          /\ native_error => train_model(TokenStream(n), options).native_called
          /\ trainer_call' =
                [index |-> 1, input_tokens |-> TokenStream(n),
                 returned |-> train_model(TokenStream(n), options),
                 failed |-> (native_error
                             \/ train_model(TokenStream(n), options).status = "panic")]
          /\ mpc' = IF native_error \/ train_model(TokenStream(n), options).status = "panic"
                    THEN "panicked" ELSE "returned"
    /\ UNCHANGED <<train_tokens, train_options, shards, chunk_results, finished,
                   native, use_after_free, cdict_arg, raw_new_text, cctx,
                   compressed_size_val, cpc, calls>>
    /\ UNCHANGED <<tokVars, likVars, evalVars, cliVars>>

\* clm_model.rs:40-45: the shards of the stream
TrainBegin ==
    /\ mpc = "start"
    /\ \E n \in 0..MaxTokens, options \in TrainOptions :
          /\ train_tokens' = TokenStream(n)
          /\ train_options' = options
          /\ IF ShardSize(n, options.ensemble_size) = 0
             THEN /\ mpc' = "panicked"
                  /\ UNCHANGED <<shards, chunk_results>>
             ELSE /\ shards' = Chunked(TokenStream(n), ShardSize(n, options.ensemble_size))
                  /\ chunk_results' =
                        [k \in 1..Len(Chunked(TokenStream(n),
                                              ShardSize(n, options.ensemble_size)))
                           |-> NoResult]
                  /\ mpc' = "training"
    /\ UNCHANGED trainer_call
    /\ UNCHANGED <<finished, native, use_after_free, cdict_arg, raw_new_text,
                   cctx, compressed_size_val, cpc, calls>>
    /\ UNCHANGED <<tokVars, likVars, evalVars, cliVars>>

\* the training of one shard ends with a dictionary (clm_model.rs:61-66)
WorkerFinish ==
    /\ mpc = "training"
    /\ \E index \in 1..Len(shards) :
          /\ index \notin Range(finished)
          /\ train_model(shards[index], train_options).status = "ok"
          /\ chunk_results' =
                [chunk_results EXCEPT ![ResultSlot(index, Len(finished))] =
                    [done |-> TRUE, dict |-> train_model(shards[index], train_options).dict]]
          /\ finished' = Append(finished, index)
          /\ trainer_call' =
                [index |-> index, input_tokens |-> shards[index],
                 returned |-> train_model(shards[index], train_options),
                 failed |-> FALSE]
    /\ UNCHANGED <<train_tokens, train_options, shards, native, use_after_free,
                   cdict_arg, raw_new_text, cctx, compressed_size_val, cpc, calls, mpc>>
    /\ UNCHANGED <<tokVars, likVars, evalVars, cliVars>>

\* the training of one shard panics: a failed assertion of train_model
\* (trainer.rs:8-10, 26-33) or an error of the trainer (trainer.rs:48-50);
\* the panic is the outcome of train
WorkerPanic ==
    /\ mpc = "training"
    /\ \E index \in 1..Len(shards) :
          /\ index \notin Range(finished)
          /\ trainer_call' =
                [index |-> index, input_tokens |-> shards[index],
                 returned |-> train_model(shards[index], train_options),
                 failed |-> TRUE]
    /\ mpc' = "panicked"
    /\ UNCHANGED <<train_tokens, train_options, shards, chunk_results, finished,
                   native, use_after_free, cdict_arg, raw_new_text, cctx,
                   compressed_size_val, cpc, calls>>
    /\ UNCHANGED <<tokVars, likVars, evalVars, cliVars>>

\* every training has ended: the handles are prepared and the model is
\* built (clm_model.rs:67-88)
Gather ==
    /\ mpc = "training"
    /\ Range(finished) = 1..Len(shards)
    /\ LET dictionaries == [k \in 1..Len(chunk_results) |-> chunk_results[k].dict]
           zstd_cdicts == PreparedDicts(dictionaries,
                                        train_options.train_compression_level, 0)
       IN /\ model' = [kind |-> "clm", dictionaries |-> dictionaries,
                       zstd_cdicts |-> zstd_cdicts, options |-> train_options]
          /\ native' = NativeOf(zstd_cdicts)
    /\ mpc' = "trained"
    /\ UNCHANGED trainer_call
    /\ UNCHANGED <<train_tokens, train_options, shards, chunk_results, finished,
                   use_after_free, cdict_arg, raw_new_text, cctx,
                   compressed_size_val, cpc, calls>>
    /\ UNCHANGED <<train_call, given_text, given_tokens, token_likelihoods, lpc>>
    /\ UNCHANGED <<tokVars, evalVars, cliVars>>

\* ClmModel::load_from_string (clm_model.rs:190-212)
Load ==
    /\ mpc = "start"
    /\ \E dict_string \in {to_save_string(d) : d \in SavedDicts} \cup Malformed,
          options \in {o \in TrainOptions : o.ensemble_size = 1 /\ o.training_chunk_size = 1} :
          LET loaded == load_from_string(dict_string, options, 0)
          IN /\ model' = loaded
             /\ IF loaded.kind = "panic"
                THEN mpc' = "panicked" /\ native' = native
                ELSE mpc' = "trained" /\ native' = NativeOf(loaded.zstd_cdicts)
    /\ UNCHANGED trainer_call
    /\ UNCHANGED <<train_tokens, train_options, shards, chunk_results, finished,
                   use_after_free, cdict_arg, raw_new_text, cctx,
                   compressed_size_val, cpc, calls>>
    /\ UNCHANGED <<train_call, given_text, given_tokens, token_likelihoods, lpc>>
    /\ UNCHANGED <<tokVars, evalVars, cliVars>>

\* compress is called; ZSTD_createCCtx returns a context or null
\* (clm_model.rs:154-159)
CompressCreate ==
    /\ mpc = "trained"
    /\ cpc = "idle"
    /\ calls < MaxCalls
    /\ \E k \in 1..Len(model.zstd_cdicts), raw \in {<<>>, <<1>>, <<1, 2>>} :
          /\ cdict_arg' = k
          /\ raw_new_text' = raw
    /\ \E is_null \in BOOLEAN :
          IF is_null
          THEN /\ cctx' = 0
               /\ cpc' = "panicked"
               /\ mpc' = "unwinding"
               /\ native' = native
          ELSE /\ cctx' = Len(native) + 1
               /\ cpc' = "created"
               /\ mpc' = mpc
               /\ native' = Append(native, [kind |-> "cctx", frees |-> 0])
    /\ UNCHANGED trainer_call
    /\ UNCHANGED <<train_tokens, train_options, shards, chunk_results, finished,
                   use_after_free, compressed_size_val, calls>>
    /\ UNCHANGED <<tokVars, likVars, evalVars, cliVars>>

\* ZSTD_compress_usingCDict returns a length or an error code
\* (clm_model.rs:161-169)
CompressRun ==
    /\ cpc = "created"
    /\ \E failed \in BOOLEAN :
          compressed_size_val' =
              [error |-> failed,
               size |-> IF failed THEN 0
                        ELSE CompressedSize(model.zstd_cdicts[cdict_arg], raw_new_text)]
    /\ use_after_free' =
          (\/ use_after_free
           \/ native[cctx].frees > 0
           \/ native[model.zstd_cdicts[cdict_arg].addr].frees > 0)
    /\ cpc' = "compressed"
    /\ UNCHANGED trainer_call
    /\ UNCHANGED <<train_tokens, train_options, shards, chunk_results, finished,
                   native, cdict_arg, raw_new_text, cctx, calls, mpc>>
    /\ UNCHANGED <<tokVars, likVars, evalVars, cliVars>>

\* ZSTD_freeCCtx (clm_model.rs:172)
CompressFree ==
    /\ cpc = "compressed"
    /\ native' = [native EXCEPT ![cctx].frees = @ + 1]
    /\ cpc' = "freed"
    /\ UNCHANGED trainer_call
    /\ UNCHANGED <<train_tokens, train_options, shards, chunk_results, finished,
                   use_after_free, cdict_arg, raw_new_text, cctx,
                   compressed_size_val, calls, mpc>>
    /\ UNCHANGED <<tokVars, likVars, evalVars, cliVars>>

\* the test of the library's answer (clm_model.rs:175-181)
CompressCheck ==
    /\ cpc = "freed"
    /\ IF compressed_size_val.error
       THEN /\ cpc' = "panicked"
            /\ mpc' = "unwinding"
            /\ calls' = calls
       ELSE /\ cpc' = "idle"
            /\ mpc' = mpc
            /\ calls' = calls + 1
    /\ UNCHANGED trainer_call
    /\ UNCHANGED <<train_tokens, train_options, shards, chunk_results, finished,
                   native, use_after_free, cdict_arg, raw_new_text, cctx,
                   compressed_size_val>>
    /\ UNCHANGED <<tokVars, likVars, evalVars, cliVars>>

\* the model goes out of scope, at the end of its owner or while a panic
\* unwinds: Drop for ClmModel (clm_model.rs:28-37)
DropModel ==
    /\ mpc \in {"trained", "unwinding"}
    /\ cpc \in {"idle", "panicked"}
    /\ native' = [a \in DOMAIN native |->
                    IF a \in Dropped(model.zstd_cdicts)
                    THEN [native[a] EXCEPT !.frees = @ + 1] ELSE native[a]]
    /\ mpc' = "dropped"
    /\ UNCHANGED trainer_call
    /\ UNCHANGED <<train_tokens, train_options, shards, chunk_results, finished,
                   use_after_free, cdict_arg, raw_new_text, cctx,
                   compressed_size_val, cpc, calls>>
    /\ UNCHANGED <<tokVars, likVars, evalVars, cliVars>>

EnsInit ==
    /\ CliIdle
    /\ TokIdle
    /\ LikIdle
    /\ EvalIdle
    /\ train_tokens = <<>>
    /\ train_options = NoOptions
    /\ shards = <<>>
    /\ chunk_results = <<>>
    /\ finished = <<>>
    /\ trainer_call = NoCall
    /\ native = <<>>
    /\ use_after_free = FALSE
    /\ cdict_arg = 0
    /\ raw_new_text = <<>>
    /\ cctx = 0
    /\ compressed_size_val = NoSize
    /\ cpc = "idle"
    /\ calls = 0
    /\ mpc = "start"

EnsNext ==
    \/ CallTrainer \/ TrainBegin \/ WorkerFinish \/ WorkerPanic \/ Gather \/ Load
    \/ CompressCreate \/ CompressRun \/ CompressFree \/ CompressCheck
    \/ DropModel

SpecEns == EnsInit /\ [][EnsNext]_vars

(***************************************************************************)
(* Specification SpecCli: the command line (cli.rs:38-196) around a        *)
(* trained ensemble and its tokenizer: the train command saves the run,    *)
(* the evaluate and inference commands look a model up by name and load    *)
(* it.  Every command is a process of its own; the directory ./models/     *)
(* outlives them.                                                          *)
(***************************************************************************)
\* the orders in which a hash map can hand out its keys
Orderings(S) ==
    {o \in [1..Cardinality(S) -> S] : \A a, b \in DOMAIN o : a /= b => o[a] /= o[b]}

\* the tokenizer of the running process
CurrentTokenizer ==
    [tokens |-> tokens, merges |-> merges, vocab_size |-> vocab_size,
     token_byte_size |-> token_byte_size]

\* tokenizers as train leaves them on the text "a " (cli.rs:85-88)
SavedTokenizers ==
    UNION {{[tokens |-> CharVocab(<<"a", " ">>, tbs), merges |-> <<>>,
             vocab_size |-> 2, token_byte_size |-> tbs],
            [tokens |-> MapInsert(CharVocab(<<"a", " ">>, tbs), <<"a", " ">>,
                                  compute_token_code(<<"a", " ">>, tbs)),
             merges |-> <<<<<<"a">>, <<" ">>>>>>,
             vocab_size |-> 3, token_byte_size |-> tbs]} :
           tbs \in 0..MaxTokenBytes}

\* TrainingOptions of a saved run, the model's identifier among them
CliOptions ==
    [ensemble_size : {1}, training_chunk_size : {1},
     dictionary_size_percentage : {Frac(8, 100)},
     train_compression_level : {21},
     context_window : {1},
     regularization : {Frac(0, 1), Frac(15, 100)},
     model_id : {None, Some(<<"a">>), Some(<<"a", "b">>)},
     inference_basis : {Frac(3, 2)}]

\* the dictionaries of the trained ensemble
RunDicts == {<<<<1>>>>, <<<<1, 2>>, <<1>>>>}

\* the formatted time of a save (mod.rs:37)
Timestamps == {<<"1">>, <<"2">>}

WithoutId == <<"w", "i", "t", "h", "o", "u", "t", "-", "i", "d">>
Extension == <<".", "j", "s", "o", "n">>

\* the name of the file save_run writes (mod.rs:24-28, 38)
FileName(timestamp, options) ==
    timestamp \o <<"-">>
    \o (IF options.model_id = None THEN WithoutId ELSE options.model_id[1])
    \o Extension

\* str::contains
contains(file_name, pattern) ==
    \E p \in 1..(Len(file_name) + 1) : IsPrefixAt(pattern, file_name, p)

\* the model names given on the command line
ModelNames == {<<>>, <<"a">>, <<"a", "b">>, <<"b", "a">>, <<"z">>, <<"j", "s">>}

\* what ./models/ holds before the first command: nothing, or a file that
\* is not a saved run
Directories ==
    {EmptyMap, MapInsert(EmptyMap, <<"b", "a", "d">> \o Extension, <<ObjOpen, ObjClose>>)}

\* the files load_model can choose (cli.rs:185-194): read_dir yields the
\* entries in no particular order and the last match wins
Matches(files, pattern) == {f \in DOMAIN files : contains(f, pattern)}

\* the end of the train command (cli.rs:94-99): save_run, then the
\* evaluation of the model, which returns or panics
SaveRun ==
    /\ clipc = "shell"
    /\ command' = "train"
    /\ IF ~dir_exists
       THEN /\ exit_status' = "panic"
            /\ UNCHANGED model_files
       ELSE /\ \E timestamp \in Timestamps, order \in Orderings(DOMAIN tokens) :
                  model_files' = MapInsert(model_files, FileName(timestamp, model.options),
                                           SerializeRun(model, CurrentTokenizer, order))
            /\ exit_status' \in {"success", "panic"}
    /\ clipc' = "exited"
    /\ UNCHANGED <<dir_exists, model_name, chosen_model, loaded_run>>
    /\ UNCHANGED <<tokVars, likVars, evalVars, ensVars>>

\* the evaluate and inference commands up to the choice of the file
\* (cli.rs:103-105, 130-138, 175-196)
LoadModel ==
    /\ clipc = "shell"
    /\ \E cmd \in {"evaluate", "inference"}, name \in ModelNames :
          /\ command' = cmd
          /\ model_name' = name
          /\ IF ~dir_exists
             THEN /\ chosen_model' = None
                  /\ exit_status' = "panic"
                  /\ clipc' = "exited"
             ELSE IF Matches(model_files, name) = {}
                  THEN /\ chosen_model' = None
                       /\ exit_status' = "success"
                       /\ clipc' = "exited"
                  ELSE /\ \E f \in Matches(model_files, name) : chosen_model' = Some(f)
                       /\ exit_status' = exit_status
                       /\ clipc' = "chosen"
    /\ UNCHANGED <<dir_exists, model_files, loaded_run>>
    /\ UNCHANGED <<tokVars, likVars, evalVars, ensVars>>

\* clm::load of the chosen file (cli.rs:108, 139; mod.rs:42-50)
LoadRun ==
    /\ clipc = "chosen"
    /\ loaded_run' = load(model_files[chosen_model[1]])
    /\ IF load(model_files[chosen_model[1]]).kind = "panic"
       THEN exit_status' = "panic" /\ clipc' = "exited"
       ELSE exit_status' = exit_status /\ clipc' = "loaded"
    /\ UNCHANGED <<dir_exists, model_files, command, model_name, chosen_model>>
    /\ UNCHANGED <<tokVars, likVars, evalVars, ensVars>>

\* the rest of the command: the evaluation sets the regularization and
\* returns or panics (cli.rs:140-173), the inference loops until it panics
\* (cli.rs:118-128)
RunCommand ==
    /\ clipc = "loaded"
    /\ IF command = "evaluate"
       THEN /\ loaded_run' = [loaded_run EXCEPT !.model.options.regularization = Frac(15, 100)]
            /\ exit_status' \in {"success", "panic"}
       ELSE /\ loaded_run' = loaded_run
            /\ exit_status' = "panic"
    /\ clipc' = "exited"
    /\ UNCHANGED <<dir_exists, model_files, command, model_name, chosen_model>>
    /\ UNCHANGED <<tokVars, likVars, evalVars, ensVars>>

\* the shell is ready for the next command
NextCommand ==
    /\ clipc = "exited"
    /\ command' = "none"
    /\ model_name' = <<>>
    /\ chosen_model' = None
    /\ loaded_run' = [kind |-> "none"]
    /\ exit_status' = "none"
    /\ clipc' = "shell"
    /\ UNCHANGED <<dir_exists, model_files>>
    /\ UNCHANGED <<tokVars, likVars, evalVars, ensVars>>

CliInit ==
    /\ EvalIdle
    /\ EnsIdle
    /\ \E t \in SavedTokenizers :
          /\ tokens = t.tokens
          /\ merges = t.merges
          /\ vocab_size = t.vocab_size
          /\ token_byte_size = t.token_byte_size
    /\ train_text = <<>>
    /\ vocab = EmptyMap
    /\ chunks = <<>>
    /\ text = <<>>
    /\ normalized = <<>>
    /\ i = 0
    /\ output = <<>>
    /\ decoded = <<>>
    /\ pc = "idle"
    /\ first_run = NoRun
    /\ \E d \in RunDicts, o \in CliOptions :
          model = [kind |-> "clm", dictionaries |-> d,
                   zstd_cdicts |-> PreparedDicts(d, o.train_compression_level, 0),
                   options |-> o]
    /\ train_call = NoTrain
    /\ given_text = <<>>
    /\ given_tokens = <<>>
    /\ token_likelihoods = [status |-> "none", likelihoods |-> EmptyMap]
    /\ lpc = "idle"
    /\ \/ dir_exists = FALSE /\ model_files = EmptyMap
       \/ dir_exists = TRUE /\ model_files \in Directories
    /\ command = "none"
    /\ model_name = <<>>
    /\ chosen_model = None
    /\ loaded_run = [kind |-> "none"]
    /\ exit_status = "none"
    /\ clipc = "shell"

CliNext == SaveRun \/ LoadModel \/ LoadRun \/ RunCommand \/ NextCommand

SpecCli == CliInit /\ [][CliNext]_vars

(***************************************************************************)
(* Claims about the tokenizer.                                             *)
(***************************************************************************)
\* the characters of the normalized training text: train seeds the vocabulary
\* with exactly these as one-character fragments, and every merged fragment
\* is longer
TrainedChars == {f[1] : f \in {g \in DOMAIN tokens : Len(g) = 1}}

DistinctCodes(toks) ==
    \A f, g \in DOMAIN toks : toks[f] = toks[g] => f = g

\* C1 (as stated): for every trained tokenizer and every text x whose
\* normalized characters all occur in the normalized training text,
\* decode(encode_fast_opt(x)) is normalize(x).
C1_RoundTripAlways ==
    (pc = "decoded" /\ Range(normalize(text)) \subseteq TrainedChars)
        => decoded = normalize(text)

\* C1 (amended): the same, for tokenizers whose vocabulary gives pairwise
\* distinct codes to its fragments.
C1_RoundTripDistinctCodes ==
    (/\ pc = "decoded"
     /\ Range(normalize(text)) \subseteq TrainedChars
     /\ DistinctCodes(tokens))
        => decoded = normalize(text)

\* a round trip through a merged fragment, of a text that normalize changes
C1_Witness ==
    /\ pc = "decoded"
    /\ Range(normalize(text)) \subseteq TrainedChars
    /\ DistinctCodes(tokens)
    /\ text /= normalize(text)
    /\ Len(output) >= 2
    /\ Len(output) < Len(normalized)
    /\ decoded = normalize(text)

\* the vocabulary fragments that are a prefix of the input at 0-based position p
FragmentsAt(toks, norm, p) ==
    {f \in DOMAIN toks : f /= <<>> /\ IsPrefixAt(f, norm, p + 1)}

\* C4: where encode_fast_opt emits a code at position i, the code is the
\* vocabulary code of the longest vocabulary fragment that is a prefix of the
\* normalized input at i, and i advances by that fragment's length.
C4_EmitsLongestFragment ==
    [][(pc = "encoding" /\ output' /= output) =>
         \E f \in FragmentsAt(tokens, normalized, i) :
            /\ \A g \in FragmentsAt(tokens, normalized, i) : Len(g) <= Len(f)
            /\ output' = Append(output, tokens[f])
            /\ i' = i + Len(f)]_vars

\* one code was emitted for a fragment of several characters, shorter
\* fragments of the vocabulary matching at the same place
C4_Witness ==
    /\ pc = "encoding"
    /\ Len(output) = 1
    /\ i >= 2
    /\ i < Len(normalized)
    /\ Cardinality(FragmentsAt(tokens, normalized, 0)) >= 2

\* C8: two runs of Tokenizer::train on the same text with the same target
\* vocabulary size produce the same vocabulary and the same merge list.
C8_SameVocabularyAndMerges ==
    (pc = "trained" /\ first_run.mode = "second")
        => (tokens = first_run.tokens /\ merges = first_run.merges)

\* C19: in encode_fast_opt the input is never read at an index at or beyond
\* its length n: every index the inner loop reads is below n, the position i
\* strictly increases on every iteration of the outer loop, an emitted match
\* never extends past n, and the loop ends with i = n; an empty normalized
\* input gives an empty token sequence.
C19_EncodeStaysInsideInput ==
    /\ [](pc \in {"encoding", "encoded", "decoded"} =>
            /\ i <= Len(normalized)
            /\ \A j \in ReadsFrom(tokens, normalized, i, <<>>) : j < Len(normalized)
            /\ pc /= "encoding" => i = Len(normalized)
            /\ (pc /= "encoding" /\ normalized = <<>>) => output = <<>>)
    /\ [][(pc = "encoding" /\ pc' = "encoding") =>
             (i < Len(normalized) /\ i' > i /\ i' <= Len(normalized))]_vars

\* an input of several characters was encoded to fewer codes than
\* characters by a vocabulary with a fragment of several characters
C19_Witness ==
    /\ pc = "encoded"
    /\ i = Len(normalized)
    /\ Len(normalized) >= 2
    /\ output /= <<>>
    /\ Len(output) < Len(normalized)
    /\ \E f \in DOMAIN tokens : Len(f) >= 2

\* the distinct characters of a normalized text, as one-character fragments
CharFragments(t) == {<<c>> : c \in Range(normalize(t))}

\* C20: Tokenizer::train performs a merge only while the vocabulary holds
\* fewer than V fragments, so the stored vocabulary has at most
\* max(V, number of distinct normalized characters) fragments; a target V
\* not larger than the distinct-character count gives a vocabulary of
\* exactly those characters and no merge.
C20_MergeOnlyBelowTarget ==
    [][/\ (pc = "train_loop" /\ merges' /= merges) =>
             Cardinality(DOMAIN vocab) < vocab_size
       /\ (pc = "train_loop" /\ pc' = "trained") =>
             /\ Cardinality(DOMAIN tokens') <= vocab_size
                \/ Cardinality(DOMAIN tokens') <= Cardinality(CharFragments(train_text))
             /\ vocab_size <= Cardinality(CharFragments(train_text)) =>
                   (DOMAIN tokens' = CharFragments(train_text) /\ merges' = <<>>)]_vars

\* a training whose target is positive and smaller than the number of
\* distinct characters has stored its vocabulary
C20_Witness ==
    /\ pc = "trained"
    /\ vocab_size > 0
    /\ vocab_size < Cardinality(DOMAIN tokens)
    /\ merges = <<>>

\* the fragment has no space before its last character
SpaceOnlyLast(f) == \A k \in 1..(Len(f) - 1) : f[k] /= " "

\* C21: in every state reached during Tokenizer::train, no fragment of the
\* vocabulary or of any chunk holds a space at a position other than its
\* last character.
C21_SpaceOnlyAtFragmentEnd ==
    /\ \A f \in DOMAIN vocab \cup DOMAIN tokens : SpaceOnlyLast(f)
    /\ \A c \in 1..Len(chunks) : \A k \in 1..Len(chunks[c]) : SpaceOnlyLast(chunks[c][k])

\* a training on a text with two spaces is in its loop after a merge that
\* made a fragment ending with a space
C21_Witness ==
    /\ pc = "train_loop"
    /\ Cardinality({k \in 1..Len(train_text) : train_text[k] = " "}) >= 2
    /\ \E f \in DOMAIN vocab : Len(f) >= 2 /\ ends_with_space(f)

\* C23: every merge step of Tokenizer::train leaves the number of chunks
\* unchanged and the concatenation of the fragments of each chunk equal to
\* the characters the chunk held initially (so no merge fuses fragments of
\* two chunks), and every fragment held in a chunk is a key of the
\* vocabulary.
C23_MergeKeepsChunks ==
    /\ [][(pc = "train_loop" /\ merges' /= merges) =>
            /\ Len(chunks') = Len(chunks)
            /\ \A c \in 1..Len(chunks) : Flatten(chunks'[c]) = Flatten(chunks[c])]_vars
    /\ [](pc = "train_loop" =>
            /\ Len(chunks) = Len(InitialChunks(normalize(train_text)))
            /\ \A c \in 1..Len(chunks) :
                  /\ Flatten(chunks[c]) = Flatten(InitialChunks(normalize(train_text))[c])
                  /\ \A k \in 1..Len(chunks[c]) : chunks[c][k] \in DOMAIN vocab)

\* a training of two chunks has merged a pair in a text where the same pair
\* also lies across the boundary of the chunks
C23_Witness ==
    /\ pc = "train_loop"
    /\ merges /= <<>>
    /\ Len(chunks) = 2
    /\ \E c \in 1..Len(chunks) : Len(chunks[c]) < Len(InitialChunks(normalize(train_text))[c])
    /\ <<chunks[1][Len(chunks[1])], chunks[2][1]>> = merges[1]

\* the number of fragments held in the chunks
TotalFragments(chs) == Len(Flatten(chs))

\* C22: Tokenizer::train terminates for every text and every target size:
\* every iteration of its loop either leaves the loop or strictly reduces
\* the number of fragments held in the chunks, and a call that entered the
\* loop stores its vocabulary.
C22_TrainTerminates ==
    /\ [][pc = "train_loop" =>
            (pc' = "trained" \/ TotalFragments(chunks') < TotalFragments(chunks))]_vars
    /\ (pc = "train_loop") ~> (pc = "trained")

\* a training has ended, after at least one merge, with fewer fragments
\* than its target asked for
C22_Witness ==
    /\ pc = "trained"
    /\ merges /= <<>>
    /\ Cardinality(DOMAIN tokens) < vocab_size

\* C25: after any sequence of Tokenizer::train calls on the same tokenizer,
\* every pair (a, b) of the merge list has a, b and their concatenation as
\* keys of the current vocabulary, and the vocabulary has at most as many
\* fragments as distinct characters plus the length of the merge list.
C25_MergesMatchVocabulary ==
    pc = "trained" =>
        /\ \A k \in 1..Len(merges) :
              /\ merges[k][1] \in DOMAIN tokens
              /\ merges[k][2] \in DOMAIN tokens
              /\ merges[k][1] \o merges[k][2] \in DOMAIN tokens
        /\ Cardinality(DOMAIN tokens)
              <= Cardinality({f \in DOMAIN tokens : Len(f) = 1}) + Len(merges)

(***************************************************************************)
(* Claims about the models' distributions.                                 *)
(***************************************************************************)
\* a call of compute_likelihoods was made and has ended
CallEnded == lpc \in {"returned", "panicked"} /\ token_likelihoods.status /= "none"

\* C2: for every model, every prefix (the empty one included) and every
\* vocabulary, compute_likelihoods returns a map whose key set is exactly
\* the set of the vocabulary's tokens; it never fails.
C2_DomainIsVocabulary ==
    CallEnded =>
        /\ token_likelihoods.status = "ok"
        /\ DOMAIN token_likelihoods.likelihoods = Range(given_tokens)

\* C3: for every model, every prefix and every non-empty vocabulary list,
\* the returned probabilities are finite and non-negative and their sum is
\* within 0.001 of 1.
C3_FiniteNonNegativeSumOne ==
    (lpc = "returned" /\ given_tokens /= <<>>) =>
        /\ \A t \in DOMAIN token_likelihoods.likelihoods :
              /\ IsFinite(token_likelihoods.likelihoods[t])
              /\ ~IsNegative(token_likelihoods.likelihoods[t])
        /\ SumsToOne(token_likelihoods.likelihoods)

\* the number of places of the training stream where a is followed by b
PairsIn(T, a, b) == Cardinality({k \in 1..(Len(T) - 1) : T[k] = a /\ T[k + 1] = b})

\* C15: for every token stream T, BigramModel::train builds a table in which
\* transition[a][b] is the number of indices k with T[k] = a and T[k+1] = b,
\* with no entry for a pair that never occurs; a stream of fewer than two
\* tokens gives an empty table.
C15_TableCountsAdjacentPairs ==
    train_call.kind = "bigram" =>
        /\ model.kind = "bigram"
        /\ \A a, b \in TokenCodes :
              IF PairsIn(train_call.tokens, a, b) > 0
              THEN /\ a \in DOMAIN model.transition_counts
                   /\ b \in DOMAIN model.transition_counts[a]
                   /\ model.transition_counts[a][b] = PairsIn(train_call.tokens, a, b)
              ELSE ~(/\ a \in DOMAIN model.transition_counts
                     /\ b \in DOMAIN model.transition_counts[a])
        /\ Len(train_call.tokens) < 2 => model.transition_counts = EmptyMap

\* a call of the unigram model with a vocabulary of tokens of its training
\* stream has ended
UnigramCalled ==
    /\ train_call.kind = "unigram"
    /\ CallEnded
    /\ Range(given_tokens) \subseteq Range(train_call.tokens)

\* C16 as stated: for every training stream and every vocabulary V of tokens
\* that occur in it, the unigram model gives token t the probability
\* count[t] divided by the number of tokens of the training stream.
C16_CountOverStreamLength ==
    UnigramCalled =>
        /\ token_likelihoods.status = "ok"
        /\ \A t \in Range(given_tokens) :
              token_likelihoods.likelihoods[t] =
                  Frac(Occurrences(train_call.tokens, t), Len(train_call.tokens))

\* C16 amended: for every training stream and every vocabulary V of tokens
\* that occur in it, the unigram model gives token t the probability
\* count[t] divided by the sum of the counts of the distinct tokens of V.
C16_CountOverVocabularyCounts ==
    UnigramCalled =>
        /\ token_likelihoods.status = "ok"
        /\ \A t \in Range(given_tokens) :
              token_likelihoods.likelihoods[t] =
                  Frac(Occurrences(train_call.tokens, t),
                       SumOver([v \in Range(given_tokens) |->
                                  Occurrences(train_call.tokens, v)],
                               Range(given_tokens)))

\* the unigram model answered for a vocabulary that leaves out a token of
\* the training stream
C16_Witness ==
    /\ UnigramCalled
    /\ lpc = "returned"
    /\ given_tokens /= <<>>
    /\ Range(given_tokens) /= Range(train_call.tokens)

\* x < y for finite values
FracLess(x, y) == x.num * y.den < y.num * x.den

C18_UniformOverVocabulary ==
    (/\ train_call.kind = "uniform"
     /\ CallEnded
     /\ Cardinality(Range(given_tokens)) = Len(given_tokens)) =>
        /\ token_likelihoods.status = "ok"
        /\ Cardinality(DOMAIN token_likelihoods.likelihoods) = Len(given_tokens)
        /\ \A t \in DOMAIN token_likelihoods.likelihoods :
              token_likelihoods.likelihoods[t] = Frac(1, Len(given_tokens))

\* the uniform model answered for two different tokens after a non-empty
\* prefix, trained on a non-empty stream
C18_Witness ==
    /\ train_call.kind = "uniform"
    /\ lpc = "returned"
    /\ Len(given_tokens) = 2
    /\ given_tokens[1] /= given_tokens[2]
    /\ given_text /= <<>>
    /\ train_call.tokens /= <<>>

(***************************************************************************)
(* Claims about evaluate.                                                  *)
(***************************************************************************)
\* C5: at each scored position p, the model is given the prefix of all the p
\* tokens T[0] .. T[p-1] before the ground truth T[p], and the probability
\* recorded is the one the returned distribution gives to T[p].
C5_PrefixIsAllPrecedingTokens ==
    /\ epc = "score" =>
          /\ given_text = SubSeq(eval_tokens, 1, pos)
          /\ ground_truth = eval_tokens[pos + 1]
    /\ (epc = "loop" /\ likelihoods /= <<>>) =>
          likelihoods[Len(likelihoods)] = token_likelihoods.likelihoods[eval_tokens[pos]]

(***************************************************************************)
(* Claims about the ensemble.                                              *)
(***************************************************************************)
\* the model was built by ClmModel::train
BuiltByTrain == model.kind = "clm" /\ shards /= <<>>

\* C6: for a stream of N >= 1 tokens and ensemble_size E >= 1, train makes
\* exactly E contiguous shards of ceil(N/E) tokens (the last possibly
\* shorter), the ensemble holds exactly E dictionaries, and the divisor of
\* the score deltas, the number of prepared dictionaries, is E.
C6_ExactlyEnsembleSizeShards ==
    (BuiltByTrain /\ Len(train_tokens) >= 1 /\ train_options.ensemble_size >= 1) =>
        LET E == train_options.ensemble_size
            size == (Len(train_tokens) + E - 1) \div E
        IN /\ Len(shards) = E
           /\ Flatten(shards) = train_tokens
           /\ \A k \in 1..(Len(shards) - 1) : Len(shards[k]) = size
           /\ Len(shards[Len(shards)]) <= size
           /\ Len(model.dictionaries) = E
           /\ Len(model.zstd_cdicts) = E

\* C7: whatever the order in which the parallel trainings end, the
\* dictionary at index i of the trained model is the one trained from shard
\* i, and the prepared handle at index i is built from it.
C7_DictionariesFollowShardOrder ==
    BuiltByTrain =>
        /\ Len(model.dictionaries) = Len(shards)
        /\ Len(model.zstd_cdicts) = Len(shards)
        /\ \A k \in 1..Len(shards) :
              /\ model.dictionaries[k] = train_model(shards[k], train_options).dict
              /\ model.zstd_cdicts[k].dict = train_model(shards[k], train_options).dict

\* a model of three shards or more whose last shard was trained first
C7_Witness ==
    /\ BuiltByTrain
    /\ Len(shards) >= 3
    /\ finished[1] = Len(shards)
    /\ finished[Len(shards)] = 1

C10_HandlesMatchDictionaries ==
    model.kind = "clm" =>
        /\ Len(model.dictionaries) = Len(model.zstd_cdicts)
        /\ \A k \in 1..Len(model.dictionaries) :
              model.zstd_cdicts[k] =
                  CreateCDict(model.dictionaries[k],
                              model.options.train_compression_level, k)

\* a loaded model of two different dictionaries that has compressed
C10_Witness ==
    /\ model.kind = "clm"
    /\ shards = <<>>
    /\ Len(model.dictionaries) = 2
    /\ model.dictionaries[1] /= model.dictionaries[2]
    /\ calls >= 1

\* the distribution the model returned holds a non-finite or negative value
BadValue ==
    \E t \in DOMAIN token_likelihoods.likelihoods :
        \/ ~IsFinite(token_likelihoods.likelihoods[t])
        \/ IsNegative(token_likelihoods.likelihoods[t])

\* C11: evaluate aborts when the returned distribution holds a non-finite or
\* negative value or lacks the ground truth; a distribution that only fails
\* to sum to 1 within 0.001 is warned about and does not end the evaluation,
\* which goes on with the next position.
C11_SumDeviationOnlyWarns ==
    /\ epc = "score" => (~BadValue /\ (~SumsToOne(token_likelihoods.likelihoods) => warned))
    /\ (epc \in {"loop", "done"} /\ likelihoods /= <<>>) =>
          (~BadValue /\ eval_tokens[pos] \in DOMAIN token_likelihoods.likelihoods)
    /\ (epc = "panicked" /\ token_likelihoods.status = "ok"
          /\ ~SumsToOne(token_likelihoods.likelihoods)) =>
          (BadValue \/ ground_truth \notin DOMAIN token_likelihoods.likelihoods)

\* a call of train_model has ended
TrainerCalled == trainer_call.index /= 0

\* C12: train_model reaches the native trainer only with a non-empty shard
\* of at least 5 sub-chunks, a buffer of at least 256 bytes and sub-chunk
\* lengths that sum to the length of the concatenated bytes; a call that
\* does not reach it has panicked.
C12_NativeCallOnlyWhenPreconditionsHold ==
    TrainerCalled =>
        /\ trainer_call.returned.native_called =>
              /\ trainer_call.input_tokens /= <<>>
              /\ Len(trainer_call.returned.sizes) >= MinSamples
              /\ trainer_call.returned.buffer_size >= MinBufferSize
              /\ SumOver(trainer_call.returned.sizes,
                         DOMAIN trainer_call.returned.sizes)
                   = Len(Flatten(trainer_call.input_tokens))
        /\ ~trainer_call.returned.native_called =>
              (trainer_call.failed /\ mpc = "panicked")

\* a call that panicked on a shard of fewer than 5 sub-chunks, after another
\* shard was trained
C12_Witness ==
    /\ TrainerCalled
    /\ ~trainer_call.returned.native_called
    /\ trainer_call.input_tokens /= <<>>
    /\ Len(trainer_call.returned.sizes) = MinSamples - 1
    /\ finished /= <<>>
    /\ mpc = "panicked"

C14_UnknownModelFails ==
    (/\ clipc = "exited"
     /\ command \in {"evaluate", "inference"}
     /\ dir_exists
     /\ Matches(model_files, model_name) = {}) => exit_status /= "success"

(***************************************************************************)
(* Claims about the statistics of evaluate.                                *)
(***************************************************************************)
\* C24: every call of calculate_model_stats made by evaluate, the progress
\* call inside the loop and the final call, is given at least one recorded
\* likelihood, so the divisor n - 1 never underflows, for every length of
\* the test stream.
C24_StatsNeverOnEmptyList ==
    /\ (epc = "score" /\ ground_truth \in DOMAIN token_likelihoods.likelihoods) =>
          likelihoods /= <<>>
    /\ (epc = "loop" /\ pos >= Len(eval_tokens)) => likelihoods /= <<>>
    /\ model_stats.status = "ok" => model_stats.variance_divisor = model_stats.count - 1
    /\ model_stats.status /= "panic"

=============================================================================
